---- MODULE Spec2Model ----
(***************************************************************************)
(* SwiftInstall: the install orchestrator (internal/ui, InstallModel).     *)
(*                                                                         *)
(* One batch of packages is installed by the command goroutine started by  *)
(* InstallModel.runInstall, either one item after the other or with one    *)
(* goroutine per item behind a semaphore of 4.  The presentation thread    *)
(* (InstallModel.Update) polls the result slots on a 100 ms tick and sets  *)
(* done when installDoneMsg arrives.                                       *)
(*                                                                         *)
(* A behaviour is either one install batch, from NewInstallModel on, or a  *)
(* sequence of commands and menu items (cmd/root.go, the main menu) with   *)
(* the environment gate and the operations that use the Backend outside    *)
(* the orchestrator: search, quick install, uninstall, update check and    *)
(* status report.                                                          *)
(*                                                                         *)
(* Strings of the program are kept as strings; the empty string is "".     *)
(* A nil *InstallResult is the record NilResult, a nil error is "nil".     *)
(***************************************************************************)
EXTENDS Integers, Sequences, FiniteSets, TLC

VARIABLES
    packages,     \* m.packages
    parallel,     \* m.parallel
    hasBackend,   \* installer.NewInstaller() != nil on this host
    backendKind,  \* which behaviours the Backend of this run has
    results,      \* m.results
    rows,         \* status column of m.table
    mu,           \* m.mu: 0 when free, else the worker holding it
    semaphore,    \* number of tokens in the semaphore channel
    wg,           \* counter of the sync.WaitGroup
    loopI,        \* loop variable of the range over m.packages
    runPc,        \* position of the runInstall command
    pc,           \* position of the installPackage call of each item
    ret,          \* result, err of inst.Install in each installPackage call
    calls,        \* number of inst.Install invocations per item
    doneMsg,      \* installDoneMsg sent and not yet handled
    done,         \* m.done
    progress,     \* m.progress percent, in completed items
    tickArmed,    \* a tickMsg is scheduled
    readInCrit,   \* Update read m.results while a worker held m.mu
    tableInCrit,  \* Update used m.table while a worker held m.mu
    quitting,     \* m.quitting
    arg,          \* identifier passed to inst.Install per item
    selectorCalls, \* number of installer.NewInstaller() calls of the batch
    cmd,          \* the command or menu item being run
    cmdPc,        \* position of the command
    envReady,     \* the environment report of this host is ready
    envChecked,   \* persisted configuration key env_checked
    gate,         \* answer of the environment gate in this command
    gateLog,      \* answers of all calls of the environment gate
    launched,     \* what the command has started
    launchParallel, \* the mode the install run was started with
    backendLog,   \* Backend methods invoked by the command, in order
    printed,      \* icons printed by RunUninstall
    outcome,      \* what the command reported
    commandsRun,  \* number of commands chosen so far
    flagParallel, \* value of the --parallel flag of the batch command
    searchPc,     \* the search screen: "off", "on" or "closed"
    sm,           \* the SearchModel m
    inflight,     \* searchResultMsg values of commands that have not been
                  \* handled yet
    lastCall,     \* what the last Update call of the search screen did
                  \* outside the model: nothing, cfg.AddSoftware with
                  \* config.Save, or an installPackage command; or that
                  \* it was given an installPkgResultMsg
    installing,   \* identifiers of the installPackage commands that run
    configPc,     \* the config screen: "off", "on" or "closed"
    cm,           \* the ConfigModel m
    store,        \* the software list of the configuration store (memory)
    keysPressed,  \* the keys the config screen has handled
    wizardPc,     \* the wizard: "off", "on" or "closed"
    wm,           \* the WizardModel m
    startPc,      \* a start of the program: "off", "idle", "prefs",
                  \* "check"
    disk,         \* the two preferences as the configuration file has them
    mem,          \* the two preferences as the running program has them
    answer,       \* the line read at the last prompt
    starts,       \* the starts of the program so far
    prompts,      \* the prompts shown so far
    checkRan      \* whether the last start ran the automatic update check

installVars ==
    <<packages, parallel, hasBackend, backendKind, results, rows, mu,
      semaphore, wg, loopI, runPc, pc, ret, calls, doneMsg, done,
      progress, tickArmed, readInCrit, tableInCrit, quitting, arg,
      selectorCalls>>

cmdVars ==
    <<cmd, cmdPc, envReady, envChecked, gate, gateLog, launched,
      launchParallel, backendLog, printed, outcome, commandsRun,
      flagParallel>>

searchVars == <<searchPc, sm, inflight, lastCall, installing>>

configVars == <<configPc, cm, store, keysPressed>>

wizardVars == <<wizardPc, wm>>

startupVars == <<startPc, disk, mem, answer, starts, prompts, checkRan>>

vars == <<installVars, cmdVars, searchVars, configVars, wizardVars, startupVars>>

(***************************************************************************)
(* Bounds of the model.                                                    *)
(***************************************************************************)
\* largest batch that is run against a Backend with every behaviour
MaxN == 3
\* how many items more than the pool size the large parallel batch has
MaxOver == 1
\* how many commands are run one after the other
MaxCommands == 2
\* largest batch during which the quit key is pressed
MaxQuitN == 2
\* longest text of the search input (the source limits it to 100)
MaxInput == 1
\* most packages a search returns
MaxResults == 2
\* most commands of the search screen that run at once
MaxPending == 1
\* most packages added to the configuration from one search screen
MaxSelected == 1
\* most packages in the configuration store
MaxStore == 2

\* the most keys of one session of the config screen
MaxKeys == 10

\* the most starts of the program
MaxStarts == 3

(***************************************************************************)
(* Program constants.                                                      *)
(***************************************************************************)
\* semaphore := make(chan struct{}, 4)
PoolSize == 4

StatusSuccess == "Success"
StatusFailed  == "Failed"
StatusSkipped == "Skipped"

\* the icons of the status column
IconPending == "pending"
IconSuccess == "check"
IconFailed  == "cross"
IconSkipped == "skipped"

NoError == "nil"
ErrUnsupported == "unsupported platform"
ErrEmptyResult == "install failed with empty result"
ErrPanic       == "panic during installation"
\* errors a Backend reports
ErrExit   == "exit status 1"
ErrLaunch == "executable not found"

\* a nil *installer.InstallResult
\* no identifier has been passed to the Backend
NoArg == "none"

NilResult == [id |-> "", status |-> "nil", error |-> NoError]

InstallResult(id, status, error) == [id |-> id, status |-> status, error |-> error]

(***************************************************************************)
(* The requests: config.Software values.                                   *)
(***************************************************************************)
PkgNames == <<"A", "B", "C", "D", "E", "F", "G", "H">>

\* the requests that have no id and carry their identifier in the legacy
\* package field
Legacy == {1}

\* the i-th request of a batch
Software(i) ==
    [name    |-> PkgNames[i],
     id      |-> IF i \in Legacy THEN "" ELSE PkgNames[i],
     package |-> IF i \in Legacy THEN PkgNames[i] ELSE "old"]

\* packageID := pkg.ID; if packageID == "" { packageID = pkg.Package }
\* variant: the legacy package field is preferred to the id
PackageIDLegacyFirst(pkg) == IF pkg.package = "" THEN pkg.id ELSE pkg.package

PackageID(pkg) == IF pkg.id = "" THEN pkg.package ELSE pkg.id

(***************************************************************************)
(* The Backend (installer.Installer.Install), after its contract: what one *)
(* call may hand back for an identifier.                                   *)
(***************************************************************************)
Return(result, err) == [result |-> result, err |-> err, fault |-> FALSE]

\* the call did not return: it raised a runtime fault
Fault == [result |-> NilResult, err |-> NoError, fault |-> TRUE]

\* the call has not returned yet
NotReturned == [result |-> NilResult, err |-> "pending", fault |-> FALSE]

InstallReturns(id) ==
    { Return(InstallResult(id, StatusSuccess, NoError), NoError),
      Return(InstallResult(id, StatusSkipped, NoError), NoError),
      \* the process ran and reported failure
      Return(InstallResult(id, StatusFailed, ErrExit), ErrExit),
      \* the process could not be started: no result
      Return(NilResult, ErrLaunch),
      \* the process could not be started: a partially populated result
      Return(InstallResult(id, StatusFailed, ErrLaunch), ErrLaunch),
      \* neither a result nor an error
      Return(NilResult, NoError),
      Fault }

\* what a Backend that never fails and one that only faults may hand back
SimpleReturns(id) ==
    { Return(InstallResult(id, StatusSuccess, NoError), NoError), Fault }

\* the behaviours of the Backend of this run
BackendReturns(id) ==
    IF backendKind = "any" THEN InstallReturns(id) ELSE SimpleReturns(id)

N == Len(packages)
Items == 1..N

(***************************************************************************)
(* Pure parts of installPackage and runInstall.                            *)
(***************************************************************************)
\* variant: the error of a launch failure is not copied into the result
NormalizeResultNoError(result, err, packageID) ==
    IF err # NoError /\ result = NilResult
    THEN InstallResult(packageID, StatusFailed, NoError)
    ELSE IF result = NilResult
         THEN InstallResult(packageID, StatusFailed, ErrEmptyResult)
         ELSE result

\* the result installPackage stores for what inst.Install handed back
NormalizeResult(result, err, packageID) ==
    IF err # NoError /\ result = NilResult
    THEN InstallResult(packageID, StatusFailed, err)
    ELSE IF result = NilResult
         THEN InstallResult(packageID, StatusFailed, ErrEmptyResult)
         ELSE result

\* the result stored when no Backend exists for the host
UnsupportedResult == InstallResult("", StatusFailed, ErrUnsupported)

\* variant: recover() swallows the fault and stores nothing
RecoveredResultDropped == NilResult

\* the result stored by the deferred recover of a parallel worker
RecoveredResult == InstallResult("", StatusFailed, ErrPanic)

\* the icon installPackage puts in the status column
StatusIcon(status) ==
    IF status = StatusSuccess THEN IconSuccess
    ELSE IF status = StatusFailed THEN IconFailed
    ELSE IF status = StatusSkipped THEN IconSkipped
    ELSE IconPending

\* variant: the goroutine reads the shared loop variable instead of its own
\* argument
WorkerIndexCaptured(w) == IF loopI > Len(packages) THEN Len(packages) ELSE loopI

\* the index a worker goroutine works on: the argument of go func(index int)
WorkerIndex(w) == w

\* variant: the semaphore has no capacity limit, a send never blocks
CanAcquireAlways == TRUE

\* semaphore <- struct{}{} can proceed
CanAcquire == semaphore < PoolSize

\* variant: the command does not wait for the workers
WaitReturnsAtOnce == TRUE

\* wg.Wait() returns
WaitReturns == wg = 0

\* variant: the sequential loop stops at the first Failed item
LoopStopsOnFailure(item) == results[item].status # StatusFailed

\* the sequential loop goes on to the next item after any outcome
LoopContinues(item) == TRUE

\* variant: the sequential loop starts the next call without waiting
SequentialReadyAsync(w) ==
    /\ runPc \in {"loop", "item"}
    /\ \A j \in 1..(w - 1) : pc[j] # "idle"

\* the sequential loop is at item w and no call of it is outstanding
SequentialReady(w) == runPc = "loop" /\ loopI = w

\* for _, r := range m.results { if r != nil { completed++ } }
Completed == Cardinality({i \in Items : results[i] # NilResult})

InFlight == {i \in Items : pc[i] = "calling"}

\* InstallModel.View, the summary of a batch that is done: the number of
\* non-nil results with the given status
ViewCount(status) ==
    Cardinality({i \in Items : results[i] # NilResult
                                 /\ results[i].status = status})

ViewSuccess == ViewCount(StatusSuccess)

\* variant: a Skipped result is counted as Failed
ViewFailedWithSkipped ==
    ViewCount(StatusFailed) + ViewCount(StatusSkipped)

ViewFailed == ViewCount(StatusFailed)

ViewSkipped == ViewCount(StatusSkipped)

\* the process of the batch is alive
Running == runPc \notin {"none", "crashed", "exited"}

\* the event loop of the install program handles messages
Presenting == ~quitting

(***************************************************************************)
(* Initial states: NewInstallModel.                                        *)
(***************************************************************************)
\* the fields of a model of n packages before anything has run
InitItems(n) ==
    /\ packages = [i \in 1..n |-> Software(i)]
    /\ results = [i \in 1..n |-> NilResult]
    /\ rows = [i \in 1..n |-> IconPending]
    /\ mu = 0
    /\ semaphore = 0
    /\ wg = 0
    /\ loopI = 1
    /\ pc = [i \in 1..n |-> "idle"]
    /\ ret = [i \in 1..n |-> NotReturned]
    /\ calls = [i \in 1..n |-> 0]
    /\ doneMsg = FALSE
    /\ done = FALSE
    /\ progress = 0
    /\ readInCrit = FALSE
    /\ tableInCrit = FALSE
    /\ quitting = FALSE
    /\ arg = [i \in 1..n |-> NoArg]
    /\ selectorCalls = 0

\* NewInstallModel and Init: the command runInstall and the first tick are
\* scheduled
InitModel(n) ==
    /\ InitItems(n)
    /\ runPc = "loop"
    /\ tickArmed = TRUE

\* a batch of up to MaxN items, either mode, any Backend or none
InitSmall ==
    /\ \E n \in 1..MaxN : InitModel(n)
    /\ parallel \in BOOLEAN
    /\ hasBackend \in BOOLEAN
    /\ backendKind = "any"

\* a parallel batch larger than the pool, against a simple Backend
InitLarge ==
    /\ \E n \in (PoolSize + 1)..(PoolSize + MaxOver) : InitModel(n)
    /\ parallel = TRUE
    /\ hasBackend = TRUE
    /\ backendKind = "simple"

(***************************************************************************)
(* The commands and menu items of the program (cmd/root.go, the main menu  *)
(* of internal/ui/search.go) with the environment gate, and the            *)
(* operations that use the Backend outside the install orchestrator.       *)
(* What a command starts is recorded, the run of a started install batch   *)
(* is the subject of the actions above.                                    *)
(***************************************************************************)
\* the commands and menu items that start an install run or a search
InstallSearchEntries ==
    {"install", "installNames", "search", "batchFile", "batchConfig",
     "menuInstall", "keyInstall", "menuSearch", "keySearch"}

Entries == InstallSearchEntries \cup {"uninstall", "autoUpdate", "status"}

\* Ready of the report of installer.CheckEnvironment()
CheckEnvironment == envReady

\* variant: a passed check is remembered and not repeated
GateAnswerCached == envChecked \/ CheckEnvironment

\* the value ensureEnvironmentReady returns: report.Ready
GateAnswer == CheckEnvironment

\* inst.Uninstall(id): a result or an error, as for Install
UninstallReturns(id) ==
    { Return(InstallResult(id, StatusSuccess, NoError), NoError),
      Return(InstallResult(id, StatusSkipped, NoError), NoError),
      Return(InstallResult(id, StatusFailed, ErrExit), NoError),
      Return(NilResult, ErrLaunch) }

\* the icon RunUninstall prints for one package
UninstallIcon(r) ==
    IF r.err # NoError \/ r.result.status = StatusFailed THEN IconFailed
    ELSE IF r.result.status = StatusSkipped THEN IconSkipped
    ELSE IconSuccess

BackendCall(method, id) == [method |-> method, id |-> id]

(***************************************************************************)
(* The search screen.                                                      *)
(***************************************************************************)
\* m.message == ""
NoMessage == <<>>
\* fmt.Sprintf("Error: %v", err)
ErrorMessage(err) == <<"Error: ", err>>
\* fmt.Sprintf("Added: %s", pkg.Name)
AddedMessage(name) == <<"Added: ", name>>

\* the error config.Save reports
ErrSave == "cannot write configuration"

\* table.WithHeight(12)
TableHeight == 12

\* the characters typed into the search input that are no command of
\* the screen
Chars == {"a"}

\* the k-th package a Backend reports for a query
PackageInfo(query, k) == [name |-> <<query, k>>, id |-> <<"id", query, k>>]

\* the answers of Backend.Search: an error, no package, or MaxResults
\* packages
SearchReturns(query) ==
    {[results |-> [k \in 1..n |-> PackageInfo(query, k)], err |-> NoError] :
        n \in {0, MaxResults}}
    \cup {[results |-> <<>>, err |-> ErrExit]}

\* m.search(query): the searchResultMsg values the command can produce
Search(query) ==
    IF ~hasBackend
    THEN {[results |-> <<>>, err |-> ErrUnsupported]}
    ELSE SearchReturns(query)

\* the last Update call added nothing and installed nothing
NoCall == [kind |-> "none"]
\* cfg.AddSoftware(config.Software{Name, ID, Category: "Other"})
AddSoftware(pkg) ==
    [kind |-> "add",
     software |-> [name |-> pkg.name, id |-> pkg.id, category |-> "Other"]]
\* the command m.installPackage(pkg)
InstallPackageCmd(pkg) == [kind |-> "install", id |-> pkg.id]

\* the last Update call was given an installPkgResultMsg
DroppedMsg == [kind |-> "installPkgResultMsg"]

\* the answers of config.Save
SaveReturns == {NoError, ErrSave}

\* the rows built from the results; the names and identifiers of the
\* model are shorter than the widths truncate cuts them to
Rows(res) ==
    [k \in DOMAIN res |->
        <<res[k].name, IF res[k].id = <<>> THEN res[k].name ELSE res[k].id>>]

NewSearchModel(initialQuery) ==
    [input       |-> initialQuery,
     query       |-> initialQuery,
     rows        |-> <<>>,
     cursor      |-> 0,
     results     |-> <<>>,
     selected    |-> 0,
     mode        |-> "input",
     searching   |-> FALSE,
     quitting    |-> FALSE,
     message     |-> NoMessage,
     messageType |-> "",
     showDetail  |-> FALSE,
     detailIndex |-> 0]

(***************************************************************************)
(* The config screen and the configuration store.                          *)
(***************************************************************************)
\* inputs[2].SetValue("Other")
Other == <<"Other">>

\* "Name and ID are required"
RequiredMessage == <<"Name and ID are required">>

\* the k-th package of the store at the start; the second one carries its
\* identifier in the legacy package field
StoredSoftware(k) ==
    LET Letters == <<"x", "y", "z", "w">>
    IN  [name     |-> <<Letters[k]>>,
         id       |-> IF k = 2 THEN <<>> ELSE <<Letters[k]>>,
         package  |-> IF k = 2 THEN <<Letters[k]>> ELSE <<>>,
         category |-> Other]

\* config.Software{Name: name, ID: id, Category: category}
NewSoftware(name, id, category) ==
    [name |-> name, id |-> id, package |-> <<>>, category |-> category]

\* the rows of the table of the config screen
ConfigRows(list) ==
    [k \in DOMAIN list |->
        <<k, list[k].name,
          IF list[k].id = <<>> THEN list[k].package ELSE list[k].id,
          list[k].category>>]

NewConfigModel(list) ==
    [mode        |-> "list",
     rows        |-> ConfigRows(list),
     cursor      |-> 0,
     inputs      |-> <<<<>>, <<>>, Other>>,
     focusIndex  |-> 0,
     packages    |-> list,
     selected    |-> 0,
     quitting    |-> FALSE,
     message     |-> NoMessage,
     messageType |-> ""]

(***************************************************************************)
(* The wizard (WizardModel).                                               *)
(***************************************************************************)
Categories == {"Development", "Browsers", "Utilities", "Media"}

\* var wizardCategories
WizardCategories ==
    [cat \in Categories |->
       CASE cat = "Development" ->
              <<NewSoftware(<<"Git">>, <<"Git.Git">>, <<cat>>),
                NewSoftware(<<"Visual Studio Code">>,
                            <<"Microsoft.VisualStudioCode">>, <<cat>>),
                NewSoftware(<<"Node.js">>, <<"OpenJSFoundation.NodeJS.LTS">>,
                            <<cat>>),
                NewSoftware(<<"Python">>, <<"Python.Python.3.12">>, <<cat>>)>>
         [] cat = "Browsers" ->
              <<NewSoftware(<<"Google Chrome">>, <<"Google.Chrome">>, <<cat>>),
                NewSoftware(<<"Mozilla Firefox">>, <<"Mozilla.Firefox">>,
                            <<cat>>),
                NewSoftware(<<"Microsoft Edge">>, <<"Microsoft.Edge">>,
                            <<cat>>)>>
         [] cat = "Utilities" ->
              <<NewSoftware(<<"7-Zip">>, <<"7zip.7zip">>, <<cat>>),
                NewSoftware(<<"Notepad++">>, <<"Notepad++.Notepad++">>,
                            <<cat>>),
                NewSoftware(<<"Everything">>, <<"voidtools.Everything">>,
                            <<cat>>)>>
         [] cat = "Media" ->
              <<NewSoftware(<<"VLC">>, <<"VideoLAN.VLC">>, <<cat>>),
                NewSoftware(<<"Spotify">>, <<"Spotify.Spotify">>, <<cat>>)>>]

\* the orders in which a range over the map can give its keys
Orders ==
    {o \in [1..Cardinality(Categories) -> Categories] :
        \A i, j \in DOMAIN o : i # j => o[i] # o[j]}

\* NewWizardModel, the range over wizardCategories having given its keys
\* in this order
NewWizardModel(order) ==
    [step       |-> 0,
     language   |-> "zh",
     categories |-> order,
     selected   |-> [cat \in Categories |-> FALSE],
     quitting   |-> FALSE,
     done       |-> FALSE,
     message    |-> NoMessage]

\* the wizard is not running
WizardInert ==
    /\ wizardPc = "off"
    /\ wm = NewWizardModel(CHOOSE o \in Orders : TRUE)

(***************************************************************************)
(* The preference for the automatic update check (runStartupChecks).       *)
(***************************************************************************)
\* the keys auto_update_prompted and auto_update_check of the configuration
Preferences == [prompted : BOOLEAN, check : BOOLEAN]

\* the lines a user gives at the prompt; "no thanks" has two words
Lines == {"", "y", "Y", "yes", "YES", "n", "no", "no thanks"}

\* fmt.Scanln(&ans): an empty line, a line of more than one word and a
\* closed input are errors
Scanln(line, closed) ==
    [ans |-> IF closed \/ line = "" THEN ""
             ELSE IF line = "no thanks" THEN "no" ELSE line,
     err |-> closed \/ line \in {"", "no thanks"}]

\* strings.EqualFold
EqualFold(s, t) ==
    LET ToLower(x) == CASE x = "Y" -> "y"
                        [] x = "YES" -> "yes"
                        [] OTHER -> x
    IN  ToLower(s) = ToLower(t)

\* the program is not started
StartupInert ==
    /\ startPc = "off"
    /\ disk = [prompted |-> FALSE, check |-> FALSE]
    /\ mem = disk
    /\ answer = [ans |-> "", err |-> FALSE]
    /\ starts = 0
    /\ prompts = 0
    /\ checkRan = FALSE

\* no config screen is open
ConfigInert ==
    /\ configPc = "off"
    /\ cm = NewConfigModel(<<>>)
    /\ store = <<>>
    /\ keysPressed = 0

\* no search screen is open
SearchInert ==
    /\ searchPc = "off"
    /\ sm = NewSearchModel(<<>>)
    /\ inflight = <<>>
    /\ lastCall = NoCall
    /\ installing = <<>>

\* the state of the commands while an install batch is looked at
CmdInert ==
    /\ cmd = "none"
    /\ cmdPc = "none"
    /\ envReady = TRUE
    /\ envChecked = TRUE
    /\ gate = "none"
    /\ gateLog = <<>>
    /\ launched = "none"
    /\ launchParallel = FALSE
    /\ backendLog = <<>>
    /\ printed = <<>>
    /\ outcome = "none"
    /\ commandsRun = 0
    /\ flagParallel = TRUE

\* the state of the install model while no batch runs
BatchInert(n) ==
    /\ InitItems(n)
    /\ runPc = "none"
    /\ tickArmed = FALSE

\* the program before a command: any environment, any persisted
\* env_checked, a software list of 0..MaxN packages.  An environment
\* without a Backend is not ready.
InitCmd ==
    /\ cmd = "none"
    /\ cmdPc = "idle"
    /\ envReady \in BOOLEAN
    /\ envChecked \in BOOLEAN
    /\ hasBackend \in BOOLEAN
    /\ envReady => hasBackend
    /\ gate = "none"
    /\ gateLog = <<>>
    /\ launched = "none"
    /\ launchParallel = FALSE
    /\ backendLog = <<>>
    /\ printed = <<>>
    /\ outcome = "none"
    /\ commandsRun = 0
    /\ flagParallel = TRUE
    /\ parallel = FALSE
    /\ backendKind = "any"
    /\ \E n \in 0..MaxN : BatchInert(n)
    /\ SearchInert
    /\ ConfigInert
    /\ WizardInert
    /\ StartupInert

\* RunSearch(query): the screen after NewSearchModel and Init, which
\* starts a search command when the query is not empty
InitSearch ==
    /\ searchPc = "on"
    /\ hasBackend \in BOOLEAN
    /\ \E q \in {<<>>, <<"b">>} :
          /\ sm = NewSearchModel(q)
          /\ IF q # <<>>
             THEN \E msg \in Search(q) : inflight = <<msg>>
             ELSE inflight = <<>>
    /\ lastCall = NoCall
    /\ installing = <<>>
    /\ parallel = FALSE
    /\ backendKind = "any"
    /\ BatchInert(0)
    /\ CmdInert
    /\ ConfigInert
    /\ WizardInert
    /\ StartupInert

\* RunConfigManager: the screen after NewConfigModel, over a store of
\* 0..MaxStore packages
InitConfig ==
    /\ configPc = "on"
    /\ \E n \in 0..MaxStore :
          /\ store = [k \in 1..n |-> StoredSoftware(k)]
          /\ cm = NewConfigModel(store)
    /\ keysPressed = 0
    /\ hasBackend = TRUE
    /\ parallel = FALSE
    /\ backendKind = "any"
    /\ BatchInert(0)
    /\ CmdInert
    /\ SearchInert
    /\ WizardInert
    /\ StartupInert

\* the wizard has been opened over a configuration with some packages
InitWizard ==
    /\ wizardPc = "on"
    /\ \E order \in Orders : wm = NewWizardModel(order)
    /\ \E n \in 0..MaxStore : store = [k \in 1..n |-> StoredSoftware(k)]
    /\ configPc = "off"
    /\ cm = NewConfigModel(<<>>)
    /\ keysPressed = 0
    /\ hasBackend = TRUE
    /\ parallel = FALSE
    /\ backendKind = "any"
    /\ BatchInert(0)
    /\ CmdInert
    /\ SearchInert
    /\ StartupInert

\* the program has not been started yet; the configuration file has not
\* recorded an answer to the prompt
InitStartup ==
    /\ startPc = "idle"
    /\ disk \in {p \in Preferences : ~p.prompted}
    /\ mem = disk
    /\ answer = [ans |-> "", err |-> FALSE]
    /\ starts = 0
    /\ prompts = 0
    /\ checkRan = FALSE
    /\ hasBackend = TRUE
    /\ parallel = FALSE
    /\ backendKind = "any"
    /\ BatchInert(0)
    /\ CmdInert
    /\ SearchInert
    /\ ConfigInert
    /\ WizardInert

\* an install batch has been started
InitBatch ==
    /\ InitSmall \/ InitLarge
    /\ CmdInert
    /\ SearchInert
    /\ ConfigInert
    /\ WizardInert
    /\ StartupInert

Init == InitBatch \/ InitCmd

(***************************************************************************)
(* installPackage(index), run by worker w.                                 *)
(***************************************************************************)
\* variant: inst is used without the nil check
InstallPackageBeginUnchecked(w) ==
    /\ selectorCalls' = selectorCalls + 1
    /\ pc' = [pc EXCEPT ![w] = "calling"]
    /\ calls' = [calls EXCEPT ![WorkerIndex(w)] = @ + 1]
    /\ arg' = [arg EXCEPT ![WorkerIndex(w)] =
                  PackageID(packages[WorkerIndex(w)])]
    /\ UNCHANGED results

\* variant: the Backend is selected by the first item and kept for the
\* rest of the batch
InstallPackageBeginCached(w) ==
    /\ selectorCalls' = IF selectorCalls = 0 THEN 1 ELSE selectorCalls
    /\ IF ~hasBackend
       THEN /\ pc' = [pc EXCEPT ![w] = "unsupported"]
            /\ UNCHANGED <<calls, arg>>
       ELSE /\ pc' = [pc EXCEPT ![w] = "calling"]
            /\ calls' = [calls EXCEPT ![WorkerIndex(w)] = @ + 1]
            /\ arg' = [arg EXCEPT ![WorkerIndex(w)] =
                          PackageID(packages[WorkerIndex(w)])]
    /\ UNCHANGED results

\* variant: a provisional result is stored before the Backend is called
InstallPackageBeginProvisional(w) ==
    /\ selectorCalls' = selectorCalls + 1
    /\ IF ~hasBackend
       THEN /\ pc' = [pc EXCEPT ![w] = "unsupported"]
            /\ UNCHANGED <<calls, arg, results>>
       ELSE /\ pc' = [pc EXCEPT ![w] = "calling"]
            /\ calls' = [calls EXCEPT ![WorkerIndex(w)] = @ + 1]
            /\ arg' = [arg EXCEPT ![WorkerIndex(w)] =
                          PackageID(packages[WorkerIndex(w)])]
            /\ results' = [results EXCEPT ![WorkerIndex(w)] =
                              InstallResult(
                                  PackageID(packages[WorkerIndex(w)]),
                                  StatusSkipped, NoError)]

\* entry of installPackage up to the call of inst.Install, or up to the
\* lock of the unsupported-platform branch: the Backend is selected, the
\* identifier chosen, nothing is stored yet
InstallPackageBegin(w) ==
    /\ selectorCalls' = selectorCalls + 1
    /\ IF ~hasBackend
       THEN /\ pc' = [pc EXCEPT ![w] = "unsupported"]
            /\ UNCHANGED <<calls, arg>>
       ELSE /\ pc' = [pc EXCEPT ![w] = "calling"]
            /\ calls' = [calls EXCEPT ![WorkerIndex(w)] = @ + 1]
            /\ arg' = [arg EXCEPT ![WorkerIndex(w)] =
                          PackageID(packages[WorkerIndex(w)])]
    /\ UNCHANGED results

\* variant: a Failed item is handed back to be installed once more
InstallPackageEndRetry(w) ==
    IF results[w].status = StatusFailed /\ calls[w] < 2
    THEN /\ pc' = [pc EXCEPT ![w] = IF parallel THEN "spawned" ELSE "idle"]
         /\ semaphore' = IF parallel THEN semaphore - 1 ELSE semaphore
         /\ runPc' = IF parallel THEN runPc ELSE "loop"
         /\ UNCHANGED <<wg, loopI>>
    ELSE /\ pc' = [pc EXCEPT ![w] = "done"]
         /\ IF parallel
            THEN /\ semaphore' = semaphore - 1
                 /\ wg' = wg - 1
                 /\ UNCHANGED <<loopI, runPc>>
            ELSE /\ IF loopI < N
                    THEN loopI' = loopI + 1 /\ runPc' = "loop"
                    ELSE loopI' = N + 1 /\ runPc' = "wait"
                 /\ UNCHANGED <<semaphore, wg>>

\* return of installPackage to the worker goroutine (deferred release of
\* the semaphore and wg.Done) or to the sequential loop
InstallPackageEnd(w) ==
    /\ pc' = [pc EXCEPT ![w] = "done"]
    /\ IF parallel
       THEN /\ semaphore' = semaphore - 1
            /\ wg' = wg - 1
            /\ UNCHANGED <<loopI, runPc>>
       ELSE /\ IF LoopContinues(w) /\ loopI < N
               THEN loopI' = loopI + 1 /\ runPc' = "loop"
               ELSE loopI' = N + 1 /\ runPc' = "wait"
            /\ UNCHANGED <<semaphore, wg>>

\* unsupported platform: m.mu.Lock()
LockUnsupported(w) ==
    /\ Running
    /\ pc[w] = "unsupported"
    /\ mu = 0
    /\ mu' = w
    /\ pc' = [pc EXCEPT ![w] = "unsupportedLocked"]
    /\ UNCHANGED <<cmdVars, searchVars, configVars, wizardVars, startupVars,
                   packages, parallel, hasBackend, backendKind, results, rows,
                   semaphore, wg, loopI, runPc, ret, calls, arg,
                   selectorCalls, doneMsg, done, progress, tickArmed,
                   readInCrit, tableInCrit, quitting>>

\* unsupported platform: store the Failed result, unlock, return
WriteUnsupported(w) ==
    /\ Running
    /\ pc[w] = "unsupportedLocked"
    /\ results' = [results EXCEPT ![WorkerIndex(w)] = UnsupportedResult]
    /\ mu' = 0
    /\ InstallPackageEnd(w)
    /\ UNCHANGED <<cmdVars, searchVars, configVars, wizardVars, startupVars,
                   packages, parallel, hasBackend, backendKind, rows, ret,
                   calls, arg, selectorCalls, doneMsg, done, progress,
                   tickArmed, readInCrit, tableInCrit, quitting>>

\* inst.Install returns a result and an error
InstallReturn(w) ==
    /\ Running
    /\ pc[w] = "calling"
    /\ \E r \in BackendReturns(PackageID(packages[WorkerIndex(w)])) :
          /\ ~r.fault
          /\ ret' = [ret EXCEPT ![w] = r]
    /\ pc' = [pc EXCEPT ![w] = "returned"]
    /\ UNCHANGED <<cmdVars, searchVars, configVars, wizardVars, startupVars,
                   packages, parallel, hasBackend, backendKind, results, rows,
                   mu, semaphore, wg, loopI, runPc, calls, arg, selectorCalls,
                   doneMsg, done, progress, tickArmed, readInCrit,
                   tableInCrit, quitting>>

\* variant: the pool slot is given back only on a normal return
InstallFaultParallelLeak(w) ==
    /\ Running
    /\ parallel
    /\ pc[w] = "calling"
    /\ Fault \in BackendReturns(PackageID(packages[WorkerIndex(w)]))
    /\ ret' = [ret EXCEPT ![w] = Fault]
    /\ pc' = [pc EXCEPT ![w] = "recover"]
    /\ UNCHANGED <<cmdVars, searchVars, configVars, wizardVars, startupVars,
                   packages, parallel, hasBackend, backendKind, results, rows,
                   mu, semaphore, wg, loopI, runPc, calls, arg, selectorCalls,
                   doneMsg, done, progress, tickArmed, readInCrit,
                   tableInCrit, quitting>>

\* inst.Install raises a runtime fault in a parallel worker: the deferred
\* functions run, the semaphore slot is given back and recover() is reached
InstallFaultParallel(w) ==
    /\ Running
    /\ parallel
    /\ pc[w] = "calling"
    /\ Fault \in BackendReturns(PackageID(packages[WorkerIndex(w)]))
    /\ ret' = [ret EXCEPT ![w] = Fault]
    /\ semaphore' = semaphore - 1
    /\ pc' = [pc EXCEPT ![w] = "recover"]
    /\ UNCHANGED <<cmdVars, searchVars, configVars, wizardVars, startupVars,
                   packages, parallel, hasBackend, backendKind, results, rows,
                   mu, wg, loopI, runPc, calls, arg, selectorCalls, doneMsg,
                   done, progress, tickArmed, readInCrit, tableInCrit,
                   quitting>>

\* inst.Install raises a runtime fault in the sequential loop: nothing
\* recovers it and the program terminates
InstallFaultSequential(w) ==
    /\ Running
    /\ ~parallel
    /\ pc[w] = "calling"
    /\ Fault \in BackendReturns(PackageID(packages[WorkerIndex(w)]))
    /\ ret' = [ret EXCEPT ![w] = Fault]
    /\ pc' = [pc EXCEPT ![w] = "crashed"]
    /\ runPc' = "crashed"
    /\ UNCHANGED <<cmdVars, searchVars, configVars, wizardVars, startupVars,
                   packages, parallel, hasBackend, backendKind, results, rows,
                   mu, semaphore, wg, loopI, calls, arg, selectorCalls,
                   doneMsg, done, progress, tickArmed, readInCrit,
                   tableInCrit, quitting>>

\* m.mu.Lock() before the result is stored
LockResults(w) ==
    /\ Running
    /\ pc[w] = "returned"
    /\ mu = 0
    /\ mu' = w
    /\ pc' = [pc EXCEPT ![w] = "locked"]
    /\ UNCHANGED <<cmdVars, searchVars, configVars, wizardVars, startupVars,
                   packages, parallel, hasBackend, backendKind, results, rows,
                   semaphore, wg, loopI, runPc, ret, calls, arg,
                   selectorCalls, doneMsg, done, progress, tickArmed,
                   readInCrit, tableInCrit, quitting>>

\* m.results[index] = result
WriteResult(w) ==
    /\ Running
    /\ pc[w] = "locked"
    /\ results' = [results EXCEPT ![WorkerIndex(w)] =
                      NormalizeResult(ret[w].result, ret[w].err,
                                      PackageID(packages[WorkerIndex(w)]))]
    /\ pc' = [pc EXCEPT ![w] = "stored"]
    /\ UNCHANGED <<cmdVars, searchVars, configVars, wizardVars, startupVars,
                   packages, parallel, hasBackend, backendKind, rows, mu,
                   semaphore, wg, loopI, runPc, ret, calls, arg,
                   selectorCalls, doneMsg, done, progress, tickArmed,
                   readInCrit, tableInCrit, quitting>>

\* the status icon of the row is set, m.mu.Unlock(), return
WriteRowUnlock(w) ==
    /\ Running
    /\ pc[w] = "stored"
    /\ LET index == WorkerIndex(w) IN
       rows' = IF index <= Len(rows)
               THEN [rows EXCEPT ![index] = StatusIcon(results[index].status)]
               ELSE rows
    /\ mu' = 0
    /\ InstallPackageEnd(w)
    /\ UNCHANGED <<cmdVars, searchVars, configVars, wizardVars, startupVars,
                   packages, parallel, hasBackend, backendKind, results, ret,
                   calls, arg, selectorCalls, doneMsg, done, progress,
                   tickArmed, readInCrit, tableInCrit, quitting>>

(***************************************************************************)
(* runInstall: the command goroutine and the parallel workers.             *)
(***************************************************************************)
\* parallel: wg.Add(1); go func(index int) {...}(i)
Spawn(w) ==
    /\ Running
    /\ parallel
    /\ runPc = "loop"
    /\ loopI = w
    /\ pc[w] = "idle"
    /\ wg' = wg + 1
    /\ pc' = [pc EXCEPT ![w] = "spawned"]
    /\ loopI' = loopI + 1
    /\ runPc' = IF loopI < N THEN "loop" ELSE "wait"
    /\ UNCHANGED <<cmdVars, searchVars, configVars, wizardVars, startupVars,
                   packages, parallel, hasBackend, backendKind, results, rows,
                   mu, semaphore, ret, calls, arg, selectorCalls, doneMsg,
                   done, progress, tickArmed, readInCrit, tableInCrit,
                   quitting>>

\* parallel worker: semaphore <- struct{}{}; m.installPackage(index)
Acquire(w) ==
    /\ Running
    /\ parallel
    /\ pc[w] = "spawned"
    /\ CanAcquire
    /\ semaphore' = semaphore + 1
    /\ InstallPackageBegin(w)
    /\ UNCHANGED <<cmdVars, searchVars, configVars, wizardVars, startupVars,
                   packages, parallel, hasBackend, backendKind, rows, mu, wg,
                   loopI, runPc, ret, doneMsg, done, progress, tickArmed,
                   readInCrit, tableInCrit, quitting>>

\* parallel worker, deferred recover: m.mu.Lock()
RecoverLock(w) ==
    /\ Running
    /\ pc[w] = "recover"
    /\ mu = 0
    /\ mu' = w
    /\ pc' = [pc EXCEPT ![w] = "recoverLocked"]
    /\ UNCHANGED <<cmdVars, searchVars, configVars, wizardVars, startupVars,
                   packages, parallel, hasBackend, backendKind, results, rows,
                   semaphore, wg, loopI, runPc, ret, calls, arg,
                   selectorCalls, doneMsg, done, progress, tickArmed,
                   readInCrit, tableInCrit, quitting>>

\* variant: the join is signalled only on a normal return
RecoverWriteNoSignal(w) ==
    /\ Running
    /\ pc[w] = "recoverLocked"
    /\ results' = [results EXCEPT ![WorkerIndex(w)] = RecoveredResult]
    /\ mu' = 0
    /\ pc' = [pc EXCEPT ![w] = "done"]
    /\ UNCHANGED <<cmdVars, searchVars, configVars, wizardVars, startupVars,
                   packages, parallel, hasBackend, backendKind, rows,
                   semaphore, wg, loopI, runPc, ret, calls, arg,
                   selectorCalls, doneMsg, done, progress, tickArmed,
                   readInCrit, tableInCrit, quitting>>

\* parallel worker, deferred recover: store the Failed result, unlock;
\* then the deferred wg.Done()
RecoverWrite(w) ==
    /\ Running
    /\ pc[w] = "recoverLocked"
    /\ results' = [results EXCEPT ![WorkerIndex(w)] = RecoveredResult]
    /\ mu' = 0
    /\ wg' = wg - 1
    /\ pc' = [pc EXCEPT ![w] = "done"]
    /\ UNCHANGED <<cmdVars, searchVars, configVars, wizardVars, startupVars,
                   packages, parallel, hasBackend, backendKind, rows,
                   semaphore, loopI, runPc, ret, calls, arg, selectorCalls,
                   doneMsg, done, progress, tickArmed, readInCrit,
                   tableInCrit, quitting>>

\* sequential: m.installPackage(i)
SequentialCall(w) ==
    /\ Running
    /\ ~parallel
    /\ SequentialReady(w)
    /\ pc[w] = "idle"
    /\ InstallPackageBegin(w)
    /\ runPc' = "item"
    /\ UNCHANGED <<cmdVars, searchVars, configVars, wizardVars, startupVars,
                   packages, parallel, hasBackend, backendKind, rows, mu,
                   semaphore, wg, loopI, ret, doneMsg, done, progress,
                   tickArmed, readInCrit, tableInCrit, quitting>>

\* wg.Wait(); return installDoneMsg{}
WaitAndReturn ==
    /\ Running
    /\ runPc = "wait"
    /\ WaitReturns
    /\ runPc' = "returned"
    /\ doneMsg' = TRUE
    /\ UNCHANGED <<cmdVars, searchVars, configVars, wizardVars, startupVars,
                   packages, parallel, hasBackend, backendKind, results, rows,
                   mu, semaphore, wg, loopI, pc, ret, calls, arg,
                   selectorCalls, done, progress, tickArmed, readInCrit,
                   tableInCrit, quitting>>

(***************************************************************************)
(* InstallModel.Update: the presentation thread.                           *)
(***************************************************************************)
\* variant: the percentage is also set by the tick that sees every slot
\* filled
TickSetsFull ==
    /\ Running
    /\ Presenting
    /\ tickArmed
    /\ readInCrit' = (readInCrit \/ mu # 0)
    /\ progress' = Completed
    /\ IF Completed < Len(packages)
       THEN /\ tickArmed' = TRUE
            /\ UNCHANGED tableInCrit
       ELSE /\ tickArmed' = FALSE
            /\ tableInCrit' = (tableInCrit \/ mu # 0)
    /\ UNCHANGED <<cmdVars, searchVars, configVars, wizardVars, startupVars,
                   packages, parallel, hasBackend, backendKind, results, rows,
                   mu, semaphore, wg, loopI, runPc, pc, ret, calls, arg,
                   selectorCalls, doneMsg, done, quitting>>

\* case tickMsg: count the stored results without taking m.mu; below the
\* total the percentage is set and the tick re-armed, at the total the
\* message falls through to m.table.Update(msg), also without m.mu
Tick ==
    /\ Running
    /\ Presenting
    /\ tickArmed
    /\ readInCrit' = (readInCrit \/ mu # 0)
    /\ IF Completed < Len(packages)
       THEN /\ progress' = Completed
            /\ tickArmed' = TRUE
            /\ UNCHANGED tableInCrit
       ELSE /\ tickArmed' = FALSE
            /\ tableInCrit' = (tableInCrit \/ mu # 0)
            /\ UNCHANGED progress
    /\ UNCHANGED <<cmdVars, searchVars, configVars, wizardVars, startupVars,
                   packages, parallel, hasBackend, backendKind, results, rows,
                   mu, semaphore, wg, loopI, runPc, pc, ret, calls, arg,
                   selectorCalls, doneMsg, done, quitting>>

\* case installDoneMsg
HandleDone ==
    /\ Running
    /\ Presenting
    /\ doneMsg
    /\ doneMsg' = FALSE
    /\ done' = TRUE
    /\ progress' = Len(packages)
    /\ UNCHANGED <<cmdVars, searchVars, configVars, wizardVars, startupVars,
                   packages, parallel, hasBackend, backendKind, results, rows,
                   mu, semaphore, wg, loopI, runPc, pc, ret, calls, arg,
                   selectorCalls, tickArmed, readInCrit, tableInCrit,
                   quitting>>

\* variant: the quit key also ends the batch
QuitCancelling ==
    /\ Running
    /\ Presenting
    /\ N <= MaxQuitN
    /\ quitting' = TRUE
    /\ runPc' = "exited"
    /\ UNCHANGED <<cmdVars, searchVars, configVars, wizardVars, startupVars,
                   packages, parallel, hasBackend, backendKind, results, rows,
                   mu, semaphore, wg, loopI, pc, ret, calls, arg,
                   selectorCalls, doneMsg, done, progress, tickArmed,
                   readInCrit, tableInCrit>>

\* case tea.KeyMsg "q", "ctrl+c": m.quitting = true; return m, tea.Quit.
\* The event loop of the program ends, no later message is handled.
Quit ==
    /\ Running
    /\ Presenting
    /\ N <= MaxQuitN
    /\ quitting' = TRUE
    /\ UNCHANGED <<cmdVars, searchVars, configVars, wizardVars, startupVars,
                   packages, parallel, hasBackend, backendKind, results, rows,
                   mu, semaphore, wg, loopI, runPc, pc, ret, calls, arg,
                   selectorCalls, doneMsg, done, progress, tickArmed,
                   readInCrit, tableInCrit>>

\* RunInstall: p.Run() has returned after the quit, RunInstall returns to
\* the command that called it, the command returns and the process ends
\* with the goroutines of the batch
ProcessExit ==
    /\ Running
    /\ quitting
    /\ runPc' = "exited"
    /\ UNCHANGED <<cmdVars, searchVars, configVars, wizardVars, startupVars,
                   packages, parallel, hasBackend, backendKind, results, rows,
                   mu, semaphore, wg, loopI, pc, ret, calls, arg,
                   selectorCalls, doneMsg, done, progress, tickArmed,
                   readInCrit, tableInCrit, quitting>>

(***************************************************************************)
(* The commands.                                                           *)
(***************************************************************************)
\* a command of the command line or an item of the main menu is chosen
StartCommand(c) ==
    /\ cmdPc \in {"idle", "end", "exit1"}
    /\ commandsRun < MaxCommands
    /\ commandsRun' = commandsRun + 1
    /\ cmd' = c
    /\ flagParallel' \in (IF c \in {"batchFile", "batchConfig"}
                          THEN BOOLEAN ELSE {TRUE})
    /\ cmdPc' = "run"
    /\ gate' = "none"
    /\ launched' = "none"
    /\ launchParallel' = FALSE
    /\ backendLog' = <<>>
    /\ printed' = <<>>
    /\ outcome' = "none"
    /\ UNCHANGED <<installVars, searchVars, configVars, wizardVars,
                   startupVars, envReady, envChecked, gateLog>>

\* ensureEnvironmentReady(), called first by runInstallFromConfig,
\* runInstallPackages and runSearch
EnsureEnvironmentReady ==
    /\ cmdPc = "run"
    /\ cmd \in {"install", "installNames", "search"}
    /\ gate' = IF GateAnswer THEN "ready" ELSE "not ready"
    /\ gateLog' = Append(gateLog, GateAnswer)
    /\ envChecked' = IF CheckEnvironment /\ ~envChecked
                     THEN TRUE ELSE envChecked
    /\ cmdPc' = "gated"
    /\ UNCHANGED <<installVars, searchVars, configVars, wizardVars,
                   startupVars, cmd, flagParallel, envReady, launched,
                   launchParallel, backendLog, printed, outcome, commandsRun>>

\* ui.RunInstall(packages, parallel): nothing to do for an empty list,
\* else the install program is started
RunInstall(par) ==
    IF Len(packages) = 0
    THEN /\ outcome' = "no packages"
         /\ cmdPc' = "end"
         /\ UNCHANGED <<launched, launchParallel>>
    ELSE /\ launched' = "RunInstall"
         /\ launchParallel' = par
         /\ outcome' = "started"
         /\ cmdPc' = "end"

\* ui.RunSearch(query): the search screen is started
RunSearch ==
    /\ launched' = "RunSearch"
    /\ outcome' = "started"
    /\ cmdPc' = "searchScreen"
    /\ UNCHANGED launchParallel

\* os.Exit(1) after a failed environment check
ExitNotReady ==
    /\ outcome' = "not ready"
    /\ cmdPc' = "exit1"
    /\ UNCHANGED <<launched, launchParallel>>

\* runInstallFromConfig after the gate
RunInstallFromConfig ==
    /\ cmd = "install"
    /\ cmdPc = "gated"
    /\ IF gate # "ready" THEN ExitNotReady
       ELSE IF Len(packages) = 0
            THEN /\ outcome' = "no packages"
                 /\ cmdPc' = "exit1"
                 /\ UNCHANGED <<launched, launchParallel>>
            ELSE RunInstall(FALSE)
    /\ UNCHANGED <<installVars, searchVars, configVars, wizardVars,
                   startupVars, cmd, flagParallel, envReady, envChecked, gate,
                   gateLog, backendLog, printed, commandsRun>>

\* variant: the answer of the gate is not looked at
RunInstallPackagesUngated ==
    /\ cmd = "installNames"
    /\ cmdPc = "gated"
    /\ RunInstall(FALSE)
    /\ UNCHANGED <<installVars, searchVars, configVars, wizardVars,
                   startupVars, cmd, flagParallel, envReady, envChecked, gate,
                   gateLog, backendLog, printed, commandsRun>>

\* runInstallPackages after the gate: ui.RunInstallByName(packages, false)
RunInstallPackages ==
    /\ cmd = "installNames"
    /\ cmdPc = "gated"
    /\ IF gate # "ready" THEN ExitNotReady ELSE RunInstall(FALSE)
    /\ UNCHANGED <<installVars, searchVars, configVars, wizardVars,
                   startupVars, cmd, flagParallel, envReady, envChecked, gate,
                   gateLog, backendLog, printed, commandsRun>>

\* runSearch after the gate
RunSearchCommand ==
    /\ cmd = "search"
    /\ cmdPc = "gated"
    /\ IF gate # "ready" THEN ExitNotReady ELSE RunSearch
    /\ UNCHANGED <<installVars, searchVars, configVars, wizardVars,
                   startupVars, cmd, flagParallel, envReady, envChecked, gate,
                   gateLog, backendLog, printed, commandsRun>>

\* runBatchFromFile: ui.RunBatchFromFile(file); the file may fail to load
RunBatchFromFile ==
    /\ cmd = "batchFile"
    /\ cmdPc = "run"
    /\ \E loaded \in BOOLEAN :
          IF loaded THEN RunInstall(TRUE)
          ELSE /\ outcome' = "load failed"
               /\ cmdPc' = "end"
               /\ UNCHANGED <<launched, launchParallel>>
    /\ UNCHANGED <<installVars, searchVars, configVars, wizardVars,
                   startupVars, cmd, flagParallel, envReady, envChecked, gate,
                   gateLog, backendLog, printed, commandsRun>>

\* runBatchFromConfig: ui.RunBatch(packages, true)
RunBatchFromConfig ==
    /\ cmd = "batchConfig"
    /\ cmdPc = "run"
    /\ RunInstall(TRUE)
    /\ UNCHANGED <<installVars, searchVars, configVars, wizardVars,
                   startupVars, cmd, flagParallel, envReady, envChecked, gate,
                   gateLog, backendLog, printed, commandsRun>>

\* main menu, item "install" or key i: RunInstall(list, false)
MenuInstall ==
    /\ cmd \in {"menuInstall", "keyInstall"}
    /\ cmdPc = "run"
    /\ RunInstall(FALSE)
    /\ UNCHANGED <<installVars, searchVars, configVars, wizardVars,
                   startupVars, cmd, flagParallel, envReady, envChecked, gate,
                   gateLog, backendLog, printed, commandsRun>>

\* main menu, item "search" or key s: RunSearch("")
MenuSearch ==
    /\ cmd \in {"menuSearch", "keySearch"}
    /\ cmdPc = "run"
    /\ RunSearch
    /\ UNCHANGED <<installVars, searchVars, configVars, wizardVars,
                   startupVars, cmd, flagParallel, envReady, envChecked, gate,
                   gateLog, backendLog, printed, commandsRun>>

\* SearchModel.search(query): the command of a search
SearchCmd ==
    /\ cmdPc = "searchScreen"
    /\ IF ~hasBackend
       THEN /\ outcome' = ErrUnsupported
            /\ cmdPc' = "end"
            /\ UNCHANGED backendLog
       ELSE /\ backendLog' = Append(backendLog, BackendCall("Search", ""))
            /\ \E found \in BOOLEAN :
                  IF found
                  THEN outcome' = "results" /\ cmdPc' = "results"
                  ELSE outcome' = "no results" /\ cmdPc' = "end"
    /\ UNCHANGED <<installVars, searchVars, configVars, wizardVars,
                   startupVars, cmd, flagParallel, envReady, envChecked, gate,
                   gateLog, launched, launchParallel, printed, commandsRun>>

\* SearchModel.installPackage(pkg): quick install of a search result
QuickInstall ==
    /\ cmdPc = "results"
    /\ IF ~hasBackend
       THEN /\ outcome' = ErrUnsupported
            /\ UNCHANGED backendLog
       ELSE /\ backendLog' = Append(backendLog, BackendCall("Install", "A"))
            /\ outcome' = "installed"
    /\ cmdPc' = "end"
    /\ UNCHANGED <<installVars, searchVars, configVars, wizardVars,
                   startupVars, cmd, flagParallel, envReady, envChecked, gate,
                   gateLog, launched, launchParallel, printed, commandsRun>>

\* runUninstallFromConfig and the head of ui.RunUninstall
RunUninstall ==
    /\ cmd = "uninstall"
    /\ cmdPc = "run"
    /\ IF Len(packages) = 0
       THEN outcome' = "no packages" /\ cmdPc' = "exit1"
       ELSE IF ~hasBackend
            THEN outcome' = "Unsupported platform" /\ cmdPc' = "end"
            ELSE outcome' = "uninstalling" /\ cmdPc' = "uninstall"
    /\ UNCHANGED <<installVars, searchVars, configVars, wizardVars,
                   startupVars, cmd, flagParallel, envReady, envChecked, gate,
                   gateLog, launched, launchParallel, backendLog, printed,
                   commandsRun>>

\* variant: the loop ends at the first package that fails
UninstallItemStopOnFailure ==
    /\ cmdPc = "uninstall"
    /\ LET i == Len(backendLog) + 1
           id == PackageID(packages[i])
       IN  \E r \in UninstallReturns(id) :
              /\ backendLog' = Append(backendLog, BackendCall("Uninstall", id))
              /\ printed' = Append(printed, UninstallIcon(r))
              /\ IF i < Len(packages) /\ UninstallIcon(r) # IconFailed
                 THEN UNCHANGED <<cmdPc, outcome>>
                 ELSE cmdPc' = "end" /\ outcome' = "uninstalled"
    /\ UNCHANGED <<installVars, searchVars, configVars, wizardVars,
                   startupVars, cmd, flagParallel, envReady, envChecked, gate,
                   gateLog, launched, launchParallel, commandsRun>>

\* ui.RunUninstall: one round of the loop over the packages
UninstallItem ==
    /\ cmdPc = "uninstall"
    /\ LET i == Len(backendLog) + 1
           id == PackageID(packages[i])
       IN  \E r \in UninstallReturns(id) :
              /\ backendLog' = Append(backendLog, BackendCall("Uninstall", id))
              /\ printed' = Append(printed, UninstallIcon(r))
              /\ IF i < Len(packages)
                 THEN UNCHANGED <<cmdPc, outcome>>
                 ELSE cmdPc' = "end" /\ outcome' = "uninstalled"
    /\ UNCHANGED <<installVars, searchVars, configVars, wizardVars,
                   startupVars, cmd, flagParallel, envReady, envChecked, gate,
                   gateLog, launched, launchParallel, commandsRun>>

\* runAutomaticUpdateCheck
RunAutomaticUpdateCheck ==
    /\ cmd = "autoUpdate"
    /\ cmdPc = "run"
    /\ IF ~hasBackend
       THEN /\ outcome' = "Skipped: unsupported platform"
            /\ UNCHANGED backendLog
       ELSE /\ backendLog' = Append(backendLog, BackendCall("Update", ""))
            /\ outcome' \in {"up to date", "warnings"}
    /\ cmdPc' = "end"
    /\ UNCHANGED <<installVars, searchVars, configVars, wizardVars,
                   startupVars, cmd, flagParallel, envReady, envChecked, gate,
                   gateLog, launched, launchParallel, printed, commandsRun>>

\* ui.RunStatus: the package manager check, then the installed packages
\* of the Backend if there is one, then the configuration summary
RunStatus ==
    /\ cmd = "status"
    /\ cmdPc = "run"
    /\ \E available \in BOOLEAN :
          IF ~available
          THEN /\ outcome' = "package manager unavailable"
               /\ UNCHANGED backendLog
          ELSE IF hasBackend
               THEN /\ backendLog' =
                          Append(backendLog, BackendCall("GetInstalled", ""))
                    /\ outcome' = "status shown"
               ELSE /\ outcome' = "status shown"
                    /\ UNCHANGED backendLog
    /\ cmdPc' = "end"
    /\ UNCHANGED <<installVars, searchVars, configVars, wizardVars,
                   startupVars, cmd, flagParallel, envReady, envChecked, gate,
                   gateLog, launched, launchParallel, printed, commandsRun>>

(***************************************************************************)
(* SearchModel.Update, one action per message.  m.selected is modelled by  *)
(* its length, the only thing View reads of it.                            *)
(***************************************************************************)
ScreenUnchanged == UNCHANGED <<installVars, cmdVars, configVars, wizardVars, startupVars, searchPc>>

\* m.input.Update for a character key: the text grows up to its limit
TextInput(c) ==
    IF Len(sm.input) < MaxInput THEN Append(sm.input, c) ELSE sm.input

\* m.table.Update for a key that moves the cursor by n rows
MoveCursor(n) ==
    IF sm.rows = <<>> THEN sm.cursor
    ELSE IF sm.cursor + n < 0 THEN 0
    ELSE IF sm.cursor + n > Len(sm.rows) - 1 THEN Len(sm.rows) - 1
    ELSE sm.cursor + n

HalfPage == TableHeight \div 2

\* the fall-through of Update for a key the switch did not return from:
\* the text input takes it in input mode, the table in results mode while
\* no detail is shown
FallThrough(text, move) ==
    IF sm.mode = "input" THEN [sm EXCEPT !.input = text]
    ELSE IF ~sm.showDetail THEN [sm EXCEPT !.cursor = MoveCursor(move)]
    ELSE sm

\* case "q", "ctrl+c"
KeyQuit ==
    /\ searchPc = "on"
    /\ sm' = [sm EXCEPT !.quitting = TRUE]
    /\ searchPc' = "closed"
    /\ lastCall' = NoCall
    /\ UNCHANGED <<installVars, cmdVars, configVars, wizardVars, startupVars,
                   inflight, installing>>

\* case "enter"
KeyEnter ==
    /\ searchPc = "on"
    /\ IF sm.mode = "input"
       THEN IF sm.input # <<>>
            THEN /\ Len(inflight) + Len(installing) < MaxPending
                 /\ \E msg \in Search(sm.input) :
                       inflight' = Append(inflight, msg)
                 /\ sm' = [sm EXCEPT !.query = sm.input,
                                     !.searching = TRUE,
                                     !.message = NoMessage,
                                     !.mode = "results"]
                 /\ lastCall' = NoCall
                 /\ UNCHANGED installing
            ELSE /\ sm' = [sm EXCEPT !.query = sm.input]
                 /\ lastCall' = NoCall
                 /\ UNCHANGED <<inflight, installing>>
       ELSE IF Len(sm.results) > 0 /\ sm.cursor < Len(sm.results)
            THEN LET pkg == sm.results[sm.cursor + 1]
                 IN  /\ lastCall' = AddSoftware(pkg)
                     /\ \E err \in SaveReturns :
                           IF err # NoError
                           THEN sm' = [sm EXCEPT
                                         !.message = ErrorMessage(err),
                                         !.messageType = "error"]
                           ELSE /\ sm.selected < MaxSelected
                                /\ sm' = [sm EXCEPT
                                           !.selected = @ + 1,
                                           !.message = AddedMessage(pkg.name),
                                           !.messageType = "success"]
                     /\ UNCHANGED <<inflight, installing>>
            ELSE /\ lastCall' = NoCall
                 /\ UNCHANGED <<sm, inflight, installing>>
    /\ ScreenUnchanged

\* case "esc"
KeyEsc ==
    /\ searchPc = "on"
    /\ sm' = IF sm.showDetail THEN [sm EXCEPT !.showDetail = FALSE]
             ELSE IF sm.mode = "results"
             THEN [sm EXCEPT !.mode = "input", !.results = <<>>,
                             !.rows = <<>>]
             ELSE sm
    /\ lastCall' = NoCall
    /\ UNCHANGED <<inflight, installing>>
    /\ ScreenUnchanged

\* case "/"; in input mode the key is a character of the text, which
\* KeyRune covers
KeySlash ==
    /\ searchPc = "on"
    /\ sm.mode = "results"
    /\ sm' = [sm EXCEPT !.mode = "input", !.input = <<>>]
    /\ lastCall' = NoCall
    /\ UNCHANGED <<inflight, installing>>
    /\ ScreenUnchanged

\* case "d"; the table takes a "d" that falls through as half a page
\* down; in input mode the key is a character of the text, which KeyRune
\* covers
KeyD ==
    /\ searchPc = "on"
    /\ sm.mode = "results"
    /\ sm' = IF Len(sm.results) > 0
             THEN [sm EXCEPT !.showDetail = ~sm.showDetail,
                             !.detailIndex = sm.cursor]
             ELSE FallThrough(sm.input, HalfPage)
    /\ lastCall' = NoCall
    /\ UNCHANGED <<inflight, installing>>
    /\ ScreenUnchanged

\* case "i"; in input mode the key is a character of the text, which
\* KeyRune covers.  The command returned runs on its own goroutine.
KeyI ==
    /\ searchPc = "on"
    /\ sm.mode = "results"
    /\ IF Len(sm.results) > 0 /\ sm.cursor < Len(sm.results)
       THEN LET pkg == sm.results[sm.cursor + 1]
            IN  /\ Len(inflight) + Len(installing) < MaxPending
                /\ lastCall' = InstallPackageCmd(pkg)
                /\ installing' = Append(installing, pkg.id)
       ELSE /\ lastCall' = NoCall
            /\ UNCHANGED installing
    /\ UNCHANGED <<sm, inflight>>
    /\ ScreenUnchanged

\* the keys "up" and "down", which only the table acts on
KeyArrow(n) ==
    /\ searchPc = "on"
    /\ sm' = FallThrough(sm.input, n)
    /\ lastCall' = NoCall
    /\ UNCHANGED <<inflight, installing>>
    /\ ScreenUnchanged

\* a character key that is no command of the screen
KeyRune(c) ==
    /\ searchPc = "on"
    /\ sm' = FallThrough(TextInput(c), 0)
    /\ lastCall' = NoCall
    /\ UNCHANGED <<inflight, installing>>
    /\ ScreenUnchanged

\* inflight without its i-th message
RemoveAt(seq, i) ==
    [k \in 1..(Len(seq) - 1) |-> IF k < i THEN seq[k] ELSE seq[k + 1]]

\* variant: a search without matches is reported like a failed search
HandleSearchResultEmptyIsError(i) ==
    /\ searchPc = "on"
    /\ i \in DOMAIN inflight
    /\ LET msg == inflight[i]
       IN  sm' = IF msg.err # NoError \/ msg.results = <<>>
                 THEN [sm EXCEPT !.searching = FALSE,
                                 !.results = <<>>,
                                 !.message = ErrorMessage(msg.err),
                                 !.messageType = "error"]
                 ELSE [sm EXCEPT !.searching = FALSE,
                                 !.message = NoMessage,
                                 !.messageType = "",
                                 !.results = msg.results,
                                 !.rows = Rows(msg.results),
                                 !.cursor = 0]
    /\ inflight' = RemoveAt(inflight, i)
    /\ lastCall' = NoCall
    /\ UNCHANGED installing
    /\ ScreenUnchanged

\* case searchResultMsg; the commands run on their own goroutines, so
\* their messages arrive in any order
HandleSearchResult(i) ==
    /\ searchPc = "on"
    /\ i \in DOMAIN inflight
    /\ LET msg == inflight[i]
       IN  sm' = IF msg.err # NoError
                 THEN [sm EXCEPT !.searching = FALSE,
                                 !.results = <<>>,
                                 !.message = ErrorMessage(msg.err),
                                 !.messageType = "error"]
                 ELSE [sm EXCEPT !.searching = FALSE,
                                 !.message = NoMessage,
                                 !.messageType = "",
                                 !.results = msg.results,
                                 !.rows = Rows(msg.results),
                                 !.cursor = IF Len(msg.results) > 0
                                            THEN 0 ELSE @]
    /\ inflight' = RemoveAt(inflight, i)
    /\ lastCall' = NoCall
    /\ UNCHANGED installing
    /\ ScreenUnchanged

\* the installPkgResultMsg values the command of installPackage can
\* produce for an identifier
InstallPkgResults(id) ==
    IF ~hasBackend
    THEN {[id |-> id, status |-> NilResult.status, err |-> ErrUnsupported]}
    ELSE {[id |-> id, status |-> r.result.status, err |-> r.err] :
             r \in {x \in InstallReturns("") : ~x.fault}}

\* Update for a message that no case of the switch takes: it falls
\* through to the text input or the table, which take only key messages
\* (and the blink of the cursor)
UpdateOtherMsg == sm

\* variant: the outcome of the quick install is shown as the message
HandleInstallResultShown(i) ==
    /\ searchPc = "on"
    /\ i \in DOMAIN installing
    /\ \E msg \in InstallPkgResults(installing[i]) :
          sm' = IF msg.err # NoError
                THEN [sm EXCEPT !.message = ErrorMessage(msg.err),
                                !.messageType = "error"]
                ELSE [sm EXCEPT !.message = <<"Installed: ", installing[i]>>,
                                !.messageType = "success"]
    /\ installing' = RemoveAt(installing, i)
    /\ lastCall' = DroppedMsg
    /\ UNCHANGED inflight
    /\ ScreenUnchanged

\* an installPkgResultMsg arrives: Update has no case for it
HandleInstallResult(i) ==
    /\ searchPc = "on"
    /\ i \in DOMAIN installing
    /\ \E msg \in InstallPkgResults(installing[i]) : sm' = UpdateOtherMsg
    /\ installing' = RemoveAt(installing, i)
    /\ lastCall' = DroppedMsg
    /\ UNCHANGED inflight
    /\ ScreenUnchanged

Next ==
    \/ \E w \in Items : Spawn(w)
    \/ \E w \in Items : Acquire(w)
    \/ \E w \in Items : SequentialCall(w)
    \/ \E w \in Items : LockUnsupported(w)
    \/ \E w \in Items : WriteUnsupported(w)
    \/ \E w \in Items : InstallReturn(w)
    \/ \E w \in Items : InstallFaultParallel(w)
    \/ \E w \in Items : InstallFaultSequential(w)
    \/ \E w \in Items : LockResults(w)
    \/ \E w \in Items : WriteResult(w)
    \/ \E w \in Items : WriteRowUnlock(w)
    \/ \E w \in Items : RecoverLock(w)
    \/ \E w \in Items : RecoverWrite(w)
    \/ WaitAndReturn
    \/ Tick
    \/ HandleDone
    \/ Quit
    \/ ProcessExit
    \/ \E c \in Entries : StartCommand(c)
    \/ EnsureEnvironmentReady
    \/ RunInstallFromConfig
    \/ RunInstallPackages
    \/ RunSearchCommand
    \/ RunBatchFromFile
    \/ RunBatchFromConfig
    \/ MenuInstall
    \/ MenuSearch
    \/ SearchCmd
    \/ QuickInstall
    \/ RunUninstall
    \/ UninstallItem
    \/ RunAutomaticUpdateCheck
    \/ RunStatus

Spec == Init /\ [][Next]_vars

(***************************************************************************)
(* The search screen, run as a program of its own.                         *)
(***************************************************************************)
NextSearch ==
    \/ KeyQuit
    \/ KeyEnter
    \/ KeyEsc
    \/ KeySlash
    \/ KeyD
    \/ KeyI
    \/ \E n \in {-1, 1} : KeyArrow(n)
    \/ \E c \in Chars : KeyRune(c)
    \/ \E i \in 1..MaxPending : HandleSearchResult(i)
    \/ \E i \in 1..MaxPending : HandleInstallResult(i)

SearchSpec == InitSearch /\ [][NextSearch]_vars

(***************************************************************************)
(* ConfigModel.Update, one action per key.  In the add and edit forms the  *)
(* keys e, d, r, y and n are characters of the text like the key a, which  *)
(* stands for them in ConfigKeyA.                                          *)
(***************************************************************************)
ConfigUnchanged ==
    UNCHANGED <<installVars, cmdVars, searchVars, wizardVars, startupVars,
                configPc>>

\* m.refreshTable after m.packages = cfg.GetSoftwareList()
RefreshTable(list) ==
    [cm EXCEPT !.packages = list,
               !.rows = ConfigRows(list),
               !.cursor = IF Len(list) = 0 THEN 0
                          ELSE IF cm.cursor >= Len(list) THEN Len(list) - 1
                          ELSE cm.cursor]

\* the form is opened on the package under the cursor
BeginEdit ==
    LET sel == cm.cursor
        pkg == cm.packages[sel + 1]
    IN  [cm EXCEPT !.mode = "edit",
                   !.selected = sel,
                   !.inputs = IF sel < Len(cm.packages)
                              THEN <<pkg.name,
                                     IF pkg.id = <<>> THEN pkg.package
                                     ELSE pkg.id,
                                     pkg.category>>
                              ELSE cm.inputs,
                   !.focusIndex = 0]

\* the fall-through of Update: the table takes the key in list mode, the
\* focused text input in the add and edit forms
ConfigFallThrough(c, move) ==
    IF cm.mode = "list"
    THEN [cm EXCEPT !.cursor =
            IF cm.rows = <<>> THEN cm.cursor
            ELSE IF cm.cursor + move < 0 THEN 0
            ELSE IF cm.cursor + move > Len(cm.rows) - 1 THEN Len(cm.rows) - 1
            ELSE cm.cursor + move]
    ELSE IF cm.mode \in {"add", "edit"} /\ c # ""
    THEN [cm EXCEPT !.inputs[cm.focusIndex + 1] =
            IF Len(@) < MaxInput THEN Append(@, c) ELSE @]
    ELSE cm

\* variant: the form is left although a required field is empty
SavePackageUnchecked(err) ==
    LET sw == NewSoftware(cm.inputs[1], cm.inputs[2], cm.inputs[3])
        list == Append(store, sw)
    IN  /\ store' = list
        /\ cm' = IF err # NoError
                 THEN [cm EXCEPT !.message = ErrorMessage(err),
                                 !.messageType = "error"]
                 ELSE [RefreshTable(list) EXCEPT
                          !.mode = "list",
                          !.message = AddedMessage(sw.name),
                          !.messageType = "success"]

\* m.savePackage, with the answer of config.Save
SavePackage(err) ==
    LET sw == NewSoftware(cm.inputs[1], cm.inputs[2], cm.inputs[3])
        list == Append(store, sw)
    IN  IF sw.name = <<>> \/ sw.id = <<>>
        THEN /\ cm' = [cm EXCEPT !.message = RequiredMessage,
                                 !.messageType = "error"]
             /\ UNCHANGED store
        ELSE              /\ store' = list
             /\ cm' = IF err # NoError
                      THEN [cm EXCEPT !.message = ErrorMessage(err),
                                      !.messageType = "error"]
                      ELSE [RefreshTable(list) EXCEPT
                               !.mode = "list",
                               !.message = AddedMessage(sw.name),
                               !.messageType = "success"]

\* m.updatePackage, with the answer of config.Save; cfg.UpdateSoftware
\* replaces the entry at an index of the store
UpdatePackage(err) ==
    LET sw == NewSoftware(cm.inputs[1], cm.inputs[2], cm.inputs[3])
        list == IF cm.selected < Len(store)
                THEN [store EXCEPT ![cm.selected + 1] = sw]
                ELSE store
    IN  IF cm.selected < 0 \/ cm.selected >= Len(cm.packages)
        THEN /\ cm' = [cm EXCEPT !.message = <<"Invalid selection">>,
                                 !.messageType = "error",
                                 !.mode = "list"]
             /\ UNCHANGED store
        ELSE IF sw.name = <<>> \/ sw.id = <<>>
        THEN /\ cm' = [cm EXCEPT !.message = RequiredMessage,
                                 !.messageType = "error"]
             /\ UNCHANGED store
        ELSE /\ store' = list
             /\ cm' = IF err # NoError
                      THEN [cm EXCEPT !.message = ErrorMessage(err),
                                      !.messageType = "error"]
                      ELSE [RefreshTable(list) EXCEPT
                               !.mode = "list",
                               !.message = <<"Updated: ", sw.name>>,
                               !.messageType = "success"]

\* m.deletePackage, with the answer of config.Save; cfg.RemoveSoftware
\* removes the entry at an index of the store
DeletePackage(err) ==
    LET list == IF cm.selected < Len(store)
                THEN RemoveAt(store, cm.selected + 1)
                ELSE store
    IN  IF cm.selected >= Len(cm.packages)
        THEN /\ cm' = [cm EXCEPT !.mode = "list"]
             /\ UNCHANGED store
        ELSE /\ store' = list
             /\ cm' = IF err # NoError
                      THEN [cm EXCEPT !.message = ErrorMessage(err),
                                      !.messageType = "error"]
                      ELSE [RefreshTable(list) EXCEPT
                               !.mode = "list",
                               !.message =
                                 <<"Removed: ",
                                   cm.packages[cm.selected + 1].name>>,
                               !.messageType = "success"]

\* case "q", "ctrl+c"
ConfigKeyQuit(k) ==
    /\ configPc = "on"
    /\ keysPressed < MaxKeys
    /\ keysPressed' = keysPressed + 1
    /\ IF cm.mode = "list"
       THEN /\ cm' = [cm EXCEPT !.quitting = TRUE]
            /\ configPc' = "closed"
       ELSE /\ cm' = [cm EXCEPT !.mode = "list", !.message = NoMessage]
            /\ UNCHANGED configPc
    /\ UNCHANGED <<installVars, cmdVars, searchVars, wizardVars, startupVars,
                   store>>

\* case "a"
ConfigKeyA ==
    /\ configPc = "on"
    /\ keysPressed < MaxKeys
    /\ keysPressed' = keysPressed + 1
    /\ cm' = IF cm.mode = "list"
             THEN [cm EXCEPT !.mode = "add", !.focusIndex = 0,
                             !.inputs = <<<<>>, <<>>, <<>>>>]
             ELSE ConfigFallThrough("a", 0)
    /\ UNCHANGED store
    /\ ConfigUnchanged

\* case "e"
ConfigKeyE ==
    /\ configPc = "on"
    /\ cm.mode \in {"list", "remove"}
    /\ keysPressed < MaxKeys
    /\ keysPressed' = keysPressed + 1
    /\ cm' = IF cm.mode = "list" /\ Len(cm.packages) > 0
             THEN BeginEdit
             ELSE ConfigFallThrough("e", 0)
    /\ UNCHANGED store
    /\ ConfigUnchanged

\* case "d", "r"
ConfigKeyD ==
    /\ configPc = "on"
    /\ cm.mode \in {"list", "remove"}
    /\ keysPressed < MaxKeys
    /\ keysPressed' = keysPressed + 1
    /\ cm' = IF cm.mode = "list" /\ Len(cm.packages) > 0
             THEN [cm EXCEPT !.mode = "remove", !.selected = cm.cursor]
             ELSE ConfigFallThrough("d", 0)
    /\ UNCHANGED store
    /\ ConfigUnchanged

\* variant: Enter in the add form saves without looking at the fields
ConfigKeyEnterUnchecked ==
    /\ configPc = "on"
    /\ keysPressed < MaxKeys
    /\ keysPressed' = keysPressed + 1
    /\ IF cm.mode = "list" /\ Len(cm.packages) > 0
       THEN cm' = BeginEdit /\ UNCHANGED store
       ELSE IF cm.mode \in {"add", "edit"} /\ cm.focusIndex < 2
       THEN cm' = [cm EXCEPT !.focusIndex = @ + 1] /\ UNCHANGED store
       ELSE IF cm.mode = "add"
       THEN \E err \in SaveReturns : SavePackageUnchecked(err)
       ELSE IF cm.mode = "edit"
       THEN \E err \in SaveReturns : UpdatePackage(err)
       ELSE IF cm.mode = "remove"
       THEN \E err \in SaveReturns : DeletePackage(err)
       ELSE cm' = ConfigFallThrough("", 0) /\ UNCHANGED store
    /\ ConfigUnchanged

\* case "enter"
ConfigKeyEnter ==
    /\ configPc = "on"
    /\ keysPressed < MaxKeys
    /\ keysPressed' = keysPressed + 1
    /\ IF cm.mode = "list" /\ Len(cm.packages) > 0
       THEN cm' = BeginEdit /\ UNCHANGED store
       ELSE IF cm.mode \in {"add", "edit"} /\ cm.focusIndex < 2
       THEN cm' = [cm EXCEPT !.focusIndex = @ + 1] /\ UNCHANGED store
       ELSE IF cm.mode = "add"
       THEN \E err \in SaveReturns : SavePackage(err)
       ELSE IF cm.mode = "edit"
       THEN \E err \in SaveReturns : UpdatePackage(err)
       ELSE IF cm.mode = "remove"
       THEN \E err \in SaveReturns : DeletePackage(err)
       ELSE cm' = ConfigFallThrough("", 0) /\ UNCHANGED store
    /\ ConfigUnchanged

\* case "y"
ConfigKeyY ==
    /\ configPc = "on"
    /\ cm.mode \in {"list", "remove"}
    /\ keysPressed < MaxKeys
    /\ keysPressed' = keysPressed + 1
    /\ IF cm.mode = "remove"
       THEN \E err \in SaveReturns : DeletePackage(err)
       ELSE cm' = ConfigFallThrough("y", 0) /\ UNCHANGED store
    /\ ConfigUnchanged

\* case "n"
ConfigKeyN ==
    /\ configPc = "on"
    /\ cm.mode \in {"list", "remove"}
    /\ keysPressed < MaxKeys
    /\ keysPressed' = keysPressed + 1
    /\ cm' = IF cm.mode = "remove"
             THEN [cm EXCEPT !.mode = "list", !.message = NoMessage]
             ELSE ConfigFallThrough("n", 0)
    /\ UNCHANGED store
    /\ ConfigUnchanged

\* case "tab", "shift+tab"
ConfigKeyTab(k) ==
    /\ configPc = "on"
    /\ keysPressed < MaxKeys
    /\ keysPressed' = keysPressed + 1
    /\ cm' = IF cm.mode \in {"add", "edit"}
             THEN [cm EXCEPT !.focusIndex =
                     IF k = "tab" THEN (@ + 1) % 3
                     ELSE IF @ - 1 < 0 THEN 2 ELSE @ - 1]
             ELSE ConfigFallThrough("", 0)
    /\ UNCHANGED store
    /\ ConfigUnchanged

\* the keys "up" and "down", which only the table acts on
ConfigKeyArrow(n) ==
    /\ configPc = "on"
    /\ keysPressed < MaxKeys
    /\ keysPressed' = keysPressed + 1
    /\ cm' = ConfigFallThrough("", n)
    /\ UNCHANGED store
    /\ ConfigUnchanged

\* the key "backspace", which only a text input acts on
ConfigKeyBackspace ==
    /\ configPc = "on"
    /\ cm.mode \in {"add", "edit"}
    /\ keysPressed < MaxKeys
    /\ keysPressed' = keysPressed + 1
    /\ cm' = [cm EXCEPT !.inputs[cm.focusIndex + 1] =
                 IF @ = <<>> THEN @ ELSE SubSeq(@, 1, Len(@) - 1)]
    /\ UNCHANGED store
    /\ ConfigUnchanged

NextConfig ==
    \/ \E k \in {"q", "ctrl+c"} : ConfigKeyQuit(k)
    \/ ConfigKeyA
    \/ ConfigKeyE
    \/ ConfigKeyD
    \/ ConfigKeyEnter
    \/ ConfigKeyY
    \/ ConfigKeyN
    \/ \E k \in {"tab", "shift+tab"} : ConfigKeyTab(k)
    \/ \E n \in {-1, 1} : ConfigKeyArrow(n)
    \/ ConfigKeyBackspace

ConfigSpec == InitConfig /\ [][NextConfig]_vars

(***************************************************************************)
(* WizardModel.Update, one action per key.                                 *)
(***************************************************************************)
WizardUnchanged ==
    UNCHANGED <<installVars, cmdVars, searchVars, startupVars, configPc, cm,
                keysPressed>>

RECURSIVE PackagesOf(_, _)
\* the entries cfg.AddSoftware is given by saveSelections when the range
\* over m.selected gives the categories in this order
PackagesOf(selected, order) ==
    IF order = <<>> THEN <<>>
    ELSE (IF selected[Head(order)] THEN WizardCategories[Head(order)]
          ELSE <<>>) \o PackagesOf(selected, Tail(order))

\* m.saveSelections, with the answer of config.Save
SaveSelections(err) ==
    /\ \E order \in Orders : store' = PackagesOf(wm.selected, order)
    /\ wm' = [wm EXCEPT !.done = TRUE,
                        !.message = IF err # NoError
                                    THEN <<"Error saving: ", err>>
                                    ELSE @]

\* case "q", "ctrl+c"
WizardKeyQuit(k) ==
    /\ wizardPc = "on"
    /\ k \in {"q", "ctrl+c"}
    /\ wm' = [wm EXCEPT !.quitting = TRUE]
    /\ wizardPc' = "closed"
    /\ UNCHANGED store
    /\ WizardUnchanged

\* variant: Enter at step 1 already saves the selection
WizardKeyEnterEarly ==
    /\ wizardPc = "on"
    /\ IF wm.step = 0
       THEN /\ wm' = [wm EXCEPT !.step = 1]
            /\ UNCHANGED <<store, wizardPc>>
       ELSE /\ \E err \in SaveReturns : SaveSelections(err)
            /\ wizardPc' = "closed"
    /\ WizardUnchanged

\* case "enter"
WizardKeyEnter ==
    /\ wizardPc = "on"
    /\ IF wm.step = 0
       THEN /\ wm' = [wm EXCEPT !.step = 1]
            /\ UNCHANGED <<store, wizardPc>>
       ELSE IF wm.step = 1
       THEN /\ wm' = [wm EXCEPT !.step = 2]
            /\ UNCHANGED <<store, wizardPc>>
       ELSE IF wm.step = 2
       THEN /\ \E err \in SaveReturns : SaveSelections(err)
            /\ wizardPc' = "closed"
       ELSE UNCHANGED <<wm, store, wizardPc>>
    /\ WizardUnchanged

\* case "1" and case "2"
WizardKeyLanguage(k) ==
    /\ wizardPc = "on"
    /\ k \in {"1", "2"}
    /\ wm' = IF wm.step = 0
             THEN [wm EXCEPT !.language = IF k = "1" THEN "en" ELSE "zh"]
             ELSE wm
    /\ UNCHANGED <<store, wizardPc>>
    /\ WizardUnchanged

\* variant: Space flips every category
WizardKeySpaceAll ==
    /\ wizardPc = "on"
    /\ wm' = IF wm.step = 1
             THEN [wm EXCEPT !.selected =
                     [cat \in Categories |-> ~wm.selected[cat]]]
             ELSE wm
    /\ UNCHANGED <<store, wizardPc>>
    /\ WizardUnchanged

\* case " ": the loop over m.categories ends in its first round
WizardKeySpace ==
    /\ wizardPc = "on"
    /\ wm' = IF wm.step = 1 /\ Len(wm.categories) > 0
             THEN [wm EXCEPT !.selected[wm.categories[1]] = ~@]
             ELSE wm
    /\ UNCHANGED <<store, wizardPc>>
    /\ WizardUnchanged

NextWizard ==
    \/ \E k \in {"q", "ctrl+c"} : WizardKeyQuit(k)
    \/ WizardKeyEnter
    \/ \E k \in {"1", "2"} : WizardKeyLanguage(k)
    \/ WizardKeySpace

WizardSpec == InitWizard /\ [][NextWizard]_vars

(***************************************************************************)
(* Starts of the program without a subcommand (rootCmd.Run).               *)
(***************************************************************************)
StartupUnchanged ==
    UNCHANGED <<installVars, cmdVars, searchVars, configVars, wizardVars>>

\* config.SetAndSave(key, value) sets the key in the running program and
\* writes the configuration file, which may fail
SetAndSave(state, key, value, err) ==
    LET m == [state.mem EXCEPT ![key] = value]
    IN  [mem |-> m, disk |-> IF err = NoError THEN m ELSE state.disk]

\* the program is started and reads its configuration file
StartProgram ==
    /\ startPc = "idle"
    /\ starts < MaxStarts
    /\ starts' = starts + 1
    /\ mem' = disk
    /\ checkRan' = FALSE
    /\ startPc' = "prefs"
    /\ UNCHANGED <<disk, answer, prompts>>
    /\ StartupUnchanged

\* variant: the prompt does not look at auto_update_prompted
HandleAutoUpdatePreferenceAlways ==
    /\ startPc = "prefs"
    /\ startPc' = "check"
    /\ \E line \in Lines, closed \in BOOLEAN, err1, err2 \in SaveReturns :
          LET read == Scanln(line, closed)
              ans == IF read.err THEN "" ELSE read.ans
              enabled ==
                  ans = "" \/ EqualFold(ans, "y") \/ EqualFold(ans, "yes")
              s1 == SetAndSave([mem |-> mem, disk |-> disk], "check",
                               enabled, err1)
              s2 == SetAndSave(s1, "prompted", TRUE, err2)
          IN  /\ answer' = read
              /\ prompts' = prompts + 1
              /\ mem' = s2.mem
              /\ disk' = s2.disk
    /\ UNCHANGED <<starts, checkRan>>
    /\ StartupUnchanged

\* handleAutoUpdatePreference
HandleAutoUpdatePreference ==
    /\ startPc = "prefs"
    /\ startPc' = "check"
    /\ IF mem.prompted
       THEN UNCHANGED <<answer, prompts, mem, disk>>
       ELSE \E line \in Lines, closed \in BOOLEAN,
               err1, err2 \in SaveReturns :
               LET read == Scanln(line, closed)
                   ans == IF read.err THEN "" ELSE read.ans
                   enabled ==
                       \/ ans = ""
                       \/ EqualFold(ans, "y")
                       \/ EqualFold(ans, "yes")
                   s1 == SetAndSave([mem |-> mem, disk |-> disk], "check",
                                    enabled, err1)
                   s2 == SetAndSave(s1, "prompted", TRUE, err2)
               IN  /\ answer' = read
                   /\ prompts' = prompts + 1
                   /\ mem' = s2.mem
                   /\ disk' = s2.disk
    /\ UNCHANGED <<starts, checkRan>>
    /\ StartupUnchanged

\* runStartupChecks after handleAutoUpdatePreference
RunStartupChecks ==
    /\ startPc = "check"
    /\ checkRan' = mem.check
    /\ startPc' = "menu"
    /\ UNCHANGED <<disk, mem, answer, starts, prompts>>
    /\ StartupUnchanged

\* a later config.SetAndSave of the same run (env_checked) writes the file
\* with the preferences as the program has them
LaterSave ==
    /\ startPc = "menu"
    /\ \E err \in SaveReturns :
          disk' = SetAndSave([mem |-> mem, disk |-> disk], "prompted",
                             mem.prompted, err).disk
    /\ UNCHANGED <<startPc, mem, answer, starts, prompts, checkRan>>
    /\ StartupUnchanged

\* the program ends
ExitProgram ==
    /\ startPc = "menu"
    /\ startPc' = "idle"
    /\ UNCHANGED <<disk, mem, answer, starts, prompts, checkRan>>
    /\ StartupUnchanged

NextStartup ==
    \/ StartProgram
    \/ HandleAutoUpdatePreference
    \/ RunStartupChecks
    \/ LaterSave
    \/ ExitProgram

StartupSpec == InitStartup /\ [][NextStartup]_vars

(***************************************************************************)
(* A parallel batch under fair scheduling: every goroutine that can take   *)
(* a step eventually takes it, every Backend call returns or faults, and   *)
(* the user does not quit.  The presentation thread is left out: it takes  *)
(* neither m.mu nor a pool slot and writes nothing the workers read, so    *)
(* its steps enable and disable no step of the command or of a worker.     *)
(***************************************************************************)
\* the largest batch of the model
MaxBatch == PoolSize + MaxOver

\* a parallel batch of any size up to MaxBatch against a simple Backend
InitLive ==
    /\ \E n \in 1..MaxBatch : InitModel(n)
    /\ parallel = TRUE
    /\ hasBackend = TRUE
    /\ backendKind = "simple"
    /\ CmdInert
    /\ SearchInert
    /\ ConfigInert
    /\ WizardInert
    /\ StartupInert

NextLive ==
    \/ \E w \in Items : Spawn(w)
    \/ \E w \in Items : Acquire(w)
    \/ \E w \in Items : InstallReturn(w)
    \/ \E w \in Items : InstallFaultParallel(w)
    \/ \E w \in Items : LockResults(w)
    \/ \E w \in Items : WriteResult(w)
    \/ \E w \in Items : WriteRowUnlock(w)
    \/ \E w \in Items : RecoverLock(w)
    \/ \E w \in Items : RecoverWrite(w)
    \/ WaitAndReturn

\* the scheduler does not stop while a goroutine of the batch can take a
\* step, and a Backend call that is in flight returns or faults
Fairness == WF_vars(NextLive)

LiveSpec == InitLive /\ [][NextLive]_vars /\ Fairness

TypeOK ==
    /\ runPc # "none" => N >= 1
    /\ mu \in 0..N
    /\ semaphore \in 0..N
    /\ wg \in 0..N
    /\ progress \in 0..N

(***************************************************************************)
(* Properties of the install orchestrator.                                 *)
(***************************************************************************)
Stored(i) == results[i] # NilResult

\* inst.Install reported a failure for this call
FailureReturn(r) ==
    \/ r.fault
    \/ r.err # NoError
    \/ r.result = NilResult
    \/ r.result.status = StatusFailed

\* C1: when runInstall has returned installDoneMsg, the result collection
\* has exactly one entry per request and none of them is empty, in either
\* mode and for every batch.
C1_EverySlotFilled ==
    runPc = "returned" =>
        /\ Len(results) = Len(packages)
        /\ \A i \in Items : Stored(i)

\* a parallel batch of several items, one of them faulted, has returned
C1_Witness ==
    /\ runPc = "returned"
    /\ parallel
    /\ N >= 2
    /\ \E i \in Items : ret[i] = Fault

\* C2: in parallel mode a stored slot i was written by the worker of item i
\* and holds the outcome of the Install call made with the identifier of
\* packages[i], whatever the order in which the workers complete.
C2_SlotHoldsOwnOutcome ==
    (parallel /\ hasBackend) =>
        \A i \in Items :
            Stored(i) =>
                /\ pc[i] \in {"stored", "done"}
                /\ ret[i] # NotReturned
                /\ ret[i].fault =>
                       /\ results[i].status = StatusFailed
                       /\ results[i].error = ErrPanic
                /\ (~ret[i].fault /\ ret[i].result # NilResult) =>
                       /\ results[i] = ret[i].result
                       /\ results[i].id = PackageID(packages[i])
                /\ (~ret[i].fault /\ ret[i].result = NilResult) =>
                       /\ results[i].status = StatusFailed
                       /\ results[i].id = PackageID(packages[i])

\* of three items the second has completed before the first
C2_Witness ==
    /\ parallel
    /\ hasBackend
    /\ N >= 3
    /\ Stored(2)
    /\ results[2].id = "B"
    /\ ~Stored(1)
    /\ pc[1] = "calling"

\* C3: in parallel mode at most 4 Install calls are in flight at any time,
\* for every batch size.
C3_AtMostFourInFlight ==
    parallel => Cardinality(InFlight) <= 4

\* four calls are in flight and a fifth worker waits for a slot
C3_Witness ==
    /\ parallel
    /\ Cardinality(InFlight) = 4
    /\ \E i \in Items : pc[i] = "spawned"

\* C4: in either mode a runtime fault of the Install call of item k does not
\* stop the run: the orchestrator keeps running, and once the run has
\* returned slot k is Failed with an error while every other item holds the
\* outcome of its own call.
C4_FaultIsContained ==
    /\ (\E k \in Items : ret[k].fault) => Running
    /\ runPc = "returned" =>
          \A k \in Items :
              IF ret[k].fault
              THEN results[k].status = StatusFailed /\ results[k].error # NoError
              ELSE hasBackend =>
                      (results[k].status = StatusFailed <=> FailureReturn(ret[k]))

\* C5: without a Backend no Install call is ever made, and when the run
\* has returned every slot is Failed with the unsupported-platform error.
C5_UnsupportedPlatform ==
    ~hasBackend =>
        /\ \A i \in Items : calls[i] = 0
        /\ InFlight = {}
        /\ runPc = "returned" =>
              \A i \in Items :
                  /\ results[i].status = StatusFailed
                  /\ results[i].error = ErrUnsupported

\* a batch of several items has returned on a host without Backend
C5_Witness ==
    /\ ~hasBackend
    /\ runPc = "returned"
    /\ N >= 2

\* C6: the observer never reads the result collection while a worker is
\* inside the critical section of m.mu.
C6_ReadsAreExclusive == ~readInCrit

\* C7: done (and the installDoneMsg that sets it) exists only when every
\* worker has finished and stored its result: no call is in flight and no
\* slot is empty.
C7_DoneAfterJoin ==
    (done \/ doneMsg) =>
        /\ InFlight = {}
        /\ \A i \in Items : pc[i] = "done" /\ Stored(i)

\* a parallel batch of several items is done
C7_Witness ==
    /\ done
    /\ parallel
    /\ hasBackend
    /\ N >= 2

\* C8: in sequential mode at most one Install call is in flight, and the
\* call for an item starts only after every earlier item has returned and
\* stored its result.
C8_SequentialInOrder ==
    ~parallel =>
        /\ Cardinality(InFlight) <= 1
        /\ \A i \in Items :
              pc[i] # "idle" =>
                  \A j \in 1..(i - 1) : pc[j] = "done" /\ Stored(j)

\* the call of the second item is in flight after the first was stored
C8_Witness ==
    /\ ~parallel
    /\ hasBackend
    /\ N >= 2
    /\ pc[2] = "calling"
    /\ Stored(1)

\* C9: with a Backend, a slot is Failed exactly when the Install call of
\* its own item failed, and when the run has returned every item has had
\* exactly one Install call and holds a result: a failure of one item
\* neither halts the batch nor skips a later item.
C9_FailuresAreLocal ==
    hasBackend =>
        /\ \A j \in Items :
              Stored(j) =>
                  /\ calls[j] = 1
                  /\ results[j].status = StatusFailed <=> FailureReturn(ret[j])
        /\ runPc = "returned" =>
              \A j \in Items : calls[j] = 1 /\ Stored(j)

\* a sequential run has returned in which the first item could not be
\* launched and the second succeeded
C9_Witness ==
    /\ ~parallel
    /\ hasBackend
    /\ runPc = "returned"
    /\ N >= 2
    /\ ret[1] = Return(NilResult, ErrLaunch)
    /\ results[1].status = StatusFailed
    /\ results[2].status = StatusSuccess

\* C10: every stored result has an error exactly when it is Failed: Failed
\* implies an error, Success and Skipped imply none.
C10_StatusMatchesError ==
    \A i \in Items :
        Stored(i) =>
            /\ results[i].status = StatusFailed => results[i].error # NoError
            /\ results[i].status \in {StatusSuccess, StatusSkipped} =>
                   results[i].error = NoError

\* a launch failure without result, a skipped item and a recovered fault
\* are stored side by side
C10_Witness ==
    /\ N >= 3
    /\ \E i, j, k \in Items :
          /\ Stored(i) /\ ret[i] = Return(NilResult, ErrLaunch)
          /\ Stored(j) /\ results[j].status = StatusSkipped
          /\ Stored(k) /\ ret[k] = Fault

(***************************************************************************)
(* Properties of the entry points, the row icons and the Backend selection.*)
(***************************************************************************)
\* C11: every entry point that starts an install run or a search (install,
\* search and batch commands, the install and search items of the main menu
\* and their i and s keys, the quick install from search results) has run
\* the environment gate with a ready report before it starts the install
\* program or the search screen or invokes a Backend method.
C11_GateBeforeStart ==
    (cmd \in InstallSearchEntries /\ (launched # "none" \/ backendLog # <<>>))
        => gate = "ready"

\* C12: when the batch is done, every row of the table shows the status icon
\* of the result stored for its item, and no row is still pending, whichever
\* path stored the result.
C12_RowsShowResults ==
    done => \A i \in Items :
                /\ Stored(i)
                /\ rows[i] # IconPending
                /\ results[i].status = StatusSuccess => rows[i] = IconSuccess
                /\ results[i].status = StatusFailed => rows[i] = IconFailed
                /\ results[i].status = StatusSkipped => rows[i] = IconSkipped

\* the items whose installPackage call has begun
Begun == {i \in Items : pc[i] \notin {"idle", "spawned"}}

C14_IdentifierPassed ==
    /\ \A i \in Items :
          calls[i] > 0 =>
              arg[i] = IF packages[i].id # "" THEN packages[i].id
                       ELSE packages[i].package
    /\ \A k \in DOMAIN backendLog :
          backendLog[k].method = "Uninstall" =>
              backendLog[k].id = IF packages[k].id # "" THEN packages[k].id
                                 ELSE packages[k].package

C14_Witness ==
    /\ N >= 2
    /\ packages[1].id = "" /\ packages[1].package # ""
    /\ packages[2].id # "" /\ packages[2].package # ""
    /\ calls[1] > 0 /\ arg[1] = packages[1].package
    /\ calls[2] > 0 /\ arg[2] = packages[2].id

\* the outcomes that report an unsupported platform
UnsupportedOutcomes ==
    {ErrUnsupported, "Unsupported platform", "Skipped: unsupported platform"}

\* C15: in search, quick install, uninstall, the automatic update check and
\* the status report, on a host without a Backend the operation ends with an
\* unsupported-platform outcome and has invoked no Backend method.
C15_NoBackendIsTerminal ==
    (/\ ~hasBackend
     /\ cmdPc = "end"
     /\ cmd \in {"search", "menuSearch", "keySearch", "uninstall",
                 "autoUpdate", "status"})
        => /\ outcome \in UnsupportedOutcomes
           /\ backendLog = <<>>

C17_InstallAtMostOnce == \A i \in Items : calls[i] <= 1

C17_Witness ==
    /\ runPc = "returned"
    /\ N >= 2
    /\ \E i \in Items : results[i].status = StatusFailed /\ calls[i] = 1
    /\ \E j \in Items : ret[j] = Fault /\ calls[j] = 1

\* C18: a result slot changes only from empty to a result: once written it
\* is never written again, also not by the fault-recovery path.
C18_SlotWrittenOnce ==
    [][\A i \in Items : Stored(i) => results'[i] = results[i]]_vars

C18_Witness ==
    /\ parallel
    /\ runPc = "returned"
    /\ \E i \in Items : results[i].error = ErrPanic
    /\ \E j \in Items : results[j].status = StatusSuccess
    /\ \A i \in Items : Stored(i)

\* C19: the presentation thread never uses state that a worker is writing
\* inside its critical section: the table written by the workers under m.mu
\* is not touched by Update while a worker holds m.mu.
C19_OnlyResultsShared == ~tableInCrit

\* C20, as stated: a call of the environment gate leaves the persisted
\* configuration unchanged.
C20_GateHasNoSideEffects ==
    [][gateLog' # gateLog => envChecked' = envChecked]_vars

\* C20, amended: a call of the environment gate changes nothing of the
\* persisted configuration and the program state but the key env_checked,
\* which a ready report sets to true; and in an unchanged environment every
\* call returns the same answer, that of the report.
C20_GateSetsOnlyEnvChecked ==
    /\ [][gateLog' # gateLog =>
             /\ envChecked' = (envChecked \/ envReady)
             /\ UNCHANGED <<installVars, searchVars, configVars, wizardVars,
                            startupVars, envReady, launched, launchParallel,
                            backendLog, printed, outcome>>]_vars
    /\ [](\A k \in DOMAIN gateLog : gateLog[k] = envReady)

C20_Witness ==
    /\ Len(gateLog) >= 2
    /\ envReady
    /\ envChecked
    /\ gate = "ready"

(***************************************************************************)
(* Properties of the summary, the poll tick and the pool.                  *)
(***************************************************************************)
\* C21: when the batch is done the three summary counts add up to N, each
\* count is the number of result slots with that status, and a Skipped
\* result is counted as skipped, not as failed.
C21_SummaryCounts ==
    done =>
        /\ ViewSuccess + ViewFailed + ViewSkipped = N
        /\ ViewSuccess =
              Cardinality({i \in Items : results[i].status = StatusSuccess})
        /\ ViewFailed =
              Cardinality({i \in Items : results[i].status = StatusFailed})
        /\ ViewSkipped =
              Cardinality({i \in Items : results[i].status = StatusSkipped})

C21_Witness ==
    /\ done
    /\ N = 3
    /\ ViewSuccess = 1
    /\ ViewFailed = 1
    /\ ViewSkipped = 1

\* C22: the count a poll tick shows is the number of non-empty slots at
\* that tick, lies in 0..N and never decreases; the tick stays armed exactly
\* while fewer than N slots are filled; the progress is at 100% only when
\* installDoneMsg has been handled.
C22_TickCount ==
    /\ [][progress' # progress =>
             \/ /\ progress' = Completed
                /\ Completed < N
                /\ progress' > progress
             \/ /\ doneMsg
                /\ done'
                /\ progress' = N]_vars
    /\ [][(tickArmed /\ ~tickArmed') => Completed = N]_vars
    /\ [](runPc # "none" =>
             /\ progress \in 0..N
             /\ progress <= Completed
             /\ Completed < N => tickArmed
             /\ progress = N => done)

C22_Witness ==
    /\ N >= 2
    /\ progress = 1
    /\ Completed = N
    /\ ~tickArmed
    /\ ~done

\* the positions at which a parallel worker holds a pool slot
HoldsSlot ==
    {"calling", "returned", "locked", "stored", "unsupported",
     "unsupportedLocked"}

\* C28: in parallel mode the pool slots in use are exactly those of the
\* workers between acquisition and the end of their item, also after
\* faults; the join counter is the number of workers started and not
\* finished, so each worker signals it once; a batch that has returned
\* holds no slot.
C28_SlotsReleased ==
    parallel =>
        /\ semaphore = Cardinality({w \in Items : pc[w] \in HoldsSlot})
        /\ wg = Cardinality({w \in Items : pc[w] \notin {"idle", "done"}})
        /\ runPc = "returned" => semaphore = 0 /\ wg = 0

C28_Witness ==
    /\ parallel
    /\ N > PoolSize
    /\ Cardinality(InFlight) = PoolSize
    /\ \E w \in Items : ret[w] = Fault /\ pc[w] = "done"

\* C24: in a parallel batch of any size, also above the pool size, under
\* fair scheduling and with Backend calls that return or fault, the batch
\* eventually emits installDoneMsg with every worker finished: each worker
\* that waited for a pool slot has obtained one.
C24_PoolNeverDeadlocks ==
    <>(doneMsg /\ \A w \in Items : pc[w] = "done" /\ calls[w] = 1)

C24_Witness ==
    /\ N > PoolSize
    /\ doneMsg
    /\ \A w \in Items : pc[w] = "done"
    /\ \E v \in Items : ret[v] = Fault
    /\ \E u \in Items : results[u].status = StatusSuccess

(***************************************************************************)
(* Properties of the gated commands, the batch command and RunUninstall.   *)
(***************************************************************************)
\* C25: the install command (from the configuration or by names) and the
\* search command call the environment gate first; with a report that is
\* not ready they report it and exit with status 1 and have started neither
\* the install program nor the search screen nor a Backend call; with a
\* ready report they go on.
C25_NotReadyExits ==
    cmd \in {"install", "installNames", "search"} =>
        /\ cmdPc # "run" => gate # "none"
        /\ gate = "not ready" =>
              /\ cmdPc \in {"gated", "exit1"}
              /\ launched = "none"
              /\ backendLog = <<>>
              /\ cmdPc = "exit1" => outcome = "not ready"
        /\ (gate = "ready" /\ cmdPc # "gated") =>
              (launched # "none" \/ outcome = "no packages")

C25_Witness ==
    /\ cmd = "installNames"
    /\ ~envReady
    /\ cmdPc = "exit1"
    /\ outcome = "not ready"
    /\ Len(packages) >= 1

\* C26: the batch command, from a file or from the configuration, starts
\* the install run in parallel mode exactly when its --parallel flag is
\* true.
C26_BatchHonoursFlag ==
    (cmd \in {"batchFile", "batchConfig"} /\ launched = "RunInstall")
        => launchParallel = flagParallel

\* C27: RunUninstall calls Uninstall once per package in list order, the
\* k-th call for the k-th package, whatever the earlier calls returned;
\* when it ends with a Backend every package has had its call, without a
\* Backend no call is made.
C27_UninstallInOrder ==
    cmd = "uninstall" =>
        /\ \A k \in DOMAIN backendLog :
              /\ k <= N
              /\ backendLog[k].method = "Uninstall"
              /\ backendLog[k].id = IF packages[k].id # ""
                                    THEN packages[k].id
                                    ELSE packages[k].package
        /\ Len(printed) = Len(backendLog)
        /\ (cmdPc = "end" /\ hasBackend) => Len(backendLog) = N
        /\ ~hasBackend => backendLog = <<>>

C27_Witness ==
    /\ cmd = "uninstall"
    /\ cmdPc = "end"
    /\ N >= 3
    /\ Len(backendLog) = N
    /\ printed[1] = IconFailed
    /\ printed[2] = IconFailed
    /\ printed[3] = IconSuccess

(***************************************************************************)
(* Properties of the search screen.                                        *)
(***************************************************************************)
\* C23: handling a search result always ends the searching state; a result
\* without error, also one with zero packages, leaves message and
\* messageType empty and shows exactly the packages of the result (an empty
\* table for zero packages); only a result with an error sets the error
\* message, and then the results are empty.
C23_EmptySearchIsNotAnError ==
    [][\A i \in DOMAIN inflight :
          (searchPc = "on" /\ inflight' = RemoveAt(inflight, i)) =>
              LET msg == inflight[i]
              IN  /\ ~sm'.searching
                  /\ msg.err = NoError =>
                        /\ sm'.message = NoMessage
                        /\ sm'.messageType = ""
                        /\ sm'.results = msg.results
                        /\ Len(sm'.rows) = Len(msg.results)
                  /\ msg.err # NoError =>
                        /\ sm'.message = ErrorMessage(msg.err)
                        /\ sm'.messageType = "error"
                        /\ sm'.results = <<>>]_vars

C23_Witness ==
    /\ searchPc = "on"
    /\ hasBackend
    /\ sm.mode = "results"
    /\ sm.query # <<>>
    /\ ~sm.searching
    /\ inflight = <<>>
    /\ sm.results = <<>>
    /\ sm.rows = <<>>
    /\ sm.message = NoMessage
    /\ sm.messageType = ""

\* C29: a package is added to the configuration or installed only while
\* no search is running, and it is a package of the results of the query
\* the screen shows.
C29_NoActionWhileSearching ==
    lastCall.kind \in {"add", "install"} =>
        /\ ~sm.searching
        /\ sm.results[sm.cursor + 1].name[1] = sm.query

\* C30: while the detail is shown the screen is in results mode and the
\* detail is that of the row under the cursor.
C30_DetailFollowsCursor ==
    sm.showDetail => (sm.mode = "results" /\ sm.detailIndex = sm.cursor)

\* C31: handling the outcome of a quick install, whatever it is, leaves
\* message, messageType, selected, results, mode and searching of the
\* search screen as they were.
C31_InstallOutcomeNotShown ==
    [][(searchPc = "on" /\ Len(installing') < Len(installing)) =>
          /\ sm'.message = sm.message
          /\ sm'.messageType = sm.messageType
          /\ sm'.selected = sm.selected
          /\ sm'.results = sm.results
          /\ sm'.mode = sm.mode
          /\ sm'.searching = sm.searching]_vars

C31_Witness ==
    /\ searchPc = "on"
    /\ lastCall = DroppedMsg
    /\ installing = <<>>
    /\ sm.mode = "results"
    /\ Len(sm.results) > 0
    /\ sm.message = NoMessage

(***************************************************************************)
(* Properties of the config screen.                                        *)
(***************************************************************************)
\* C32: Enter on the last field of the add or edit form with an empty name
\* or an empty id leaves the configuration store as it is, sets the error
\* message "Name and ID are required" and keeps the form open; an edit
\* whose selected index is outside the package list leaves the store as it
\* is and returns to list mode with an error.
C32_RequiredFields ==
    [][(/\ ConfigKeyEnter
        /\ cm.mode \in {"add", "edit"}
        /\ cm.focusIndex = 2) =>
          IF cm.mode = "edit" /\ cm.selected >= Len(cm.packages)
          THEN /\ store' = store
               /\ cm'.mode = "list"
               /\ cm'.messageType = "error"
          ELSE (cm.inputs[1] = <<>> \/ cm.inputs[2] = <<>>) =>
                  /\ store' = store
                  /\ cm'.message = RequiredMessage
                  /\ cm'.messageType = "error"
                  /\ cm'.mode = cm.mode
                  /\ cm'.packages = cm.packages]_vars

C32_Witness ==
    /\ configPc = "on"
    /\ cm.mode = "add"
    /\ cm.focusIndex = 2
    /\ cm.inputs[1] # <<>>
    /\ cm.inputs[2] = <<>>
    /\ cm.message = RequiredMessage
    /\ cm.messageType = "error"
    /\ cm.packages = store

\* C33: the store loses a package only on y or Enter in remove mode, and
\* the package it loses is the one that was under the cursor when remove
\* mode was entered, which is the one the screen asks about; q, and n in
\* remove mode, lead to list mode without changing the store, and q quits
\* only from list mode.
C33_RemoveOnlyConfirmed ==
    [][/\ Len(store') < Len(store) =>
            /\ cm.mode = "remove"
            /\ ConfigKeyY \/ ConfigKeyEnter
            /\ store' = RemoveAt(store, cm.selected + 1)
            /\ store[cm.selected + 1] = cm.packages[cm.selected + 1]
       /\ (ConfigKeyQuit("q") \/ ConfigKeyN) => store' = store
       /\ ((ConfigKeyQuit("q") \/ ConfigKeyN) /\ cm.mode = "remove") =>
            (cm'.mode = "list" /\ configPc' = "on")
       /\ (ConfigKeyQuit("q") /\ cm.mode \in {"add", "edit"}) =>
            (cm'.mode = "list" /\ configPc' = "on")
       /\ configPc' = "closed" => cm.mode = "list"]_vars

\* C34: in list mode the package list of the screen and its table are
\* those of the configuration store.
C34_ListShowsStore ==
    (configPc = "on" /\ cm.mode = "list") =>
        (cm.packages = store /\ cm.rows = ConfigRows(store))

\* C37: while a field of the add or edit form is focused the key q is
\* delivered to the field: the form stays open and the field grows by it.
C37_QuitKeyIsText ==
    [][(ConfigKeyQuit("q") /\ cm.mode \in {"add", "edit"}) =>
          /\ cm'.mode = cm.mode
          /\ Len(cm.inputs[cm.focusIndex + 1]) < MaxInput =>
                cm'.inputs[cm.focusIndex + 1] =
                    Append(cm.inputs[cm.focusIndex + 1], "q")]_vars

(***************************************************************************)
(* Properties of the wizard.                                               *)
(***************************************************************************)
\* C35: a Space key at step 1 flips the selected flag of exactly one
\* category, the first of the model's category list, and leaves the others
\* as they are; no category other than categories[0] is ever selected.
C35_SpaceFlipsFirst ==
    [][/\ (WizardKeySpace /\ wm.step = 1) =>
            /\ wm'.selected[wm.categories[1]] = ~wm.selected[wm.categories[1]]
            /\ \A cat \in Categories \ {wm.categories[1]} :
                  wm'.selected[cat] = wm.selected[cat]
       /\ \A cat \in Categories \ {wm'.categories[1]} : ~wm'.selected[cat]
       /\ wm'.categories = wm.categories]_vars

C35_Witness ==
    /\ wizardPc = "on"
    /\ wm.step = 1
    /\ wm.selected[wm.categories[1]]
    /\ wm.categories[1] # "Development"

\* C36: the step of the wizard changes only on Enter, from 0 to 1 and from
\* 1 to 2; the configuration changes only on Enter at step 2, which makes
\* its software list the packages of the selected categories and nothing
\* else (the empty list when none is selected); q leaves the configuration
\* as it is at every step.
C36_WizardSteps ==
    [][/\ wm'.step # wm.step =>
            /\ WizardKeyEnter
            /\ wm.step \in {0, 1}
            /\ wm'.step = wm.step + 1
       /\ store' # store => (WizardKeyEnter /\ wm.step = 2)
       /\ (WizardKeyEnter /\ wm.step = 2) =>
            /\ \E order \in Orders : store' = PackagesOf(wm.selected, order)
            /\ (\A cat \in Categories : ~wm.selected[cat]) => store' = <<>>
       /\ WizardKeyQuit("q") => store' = store]_vars

C36_Witness ==
    /\ wizardPc = "closed"
    /\ wm.done
    /\ wm.step = 2
    /\ wm.selected[wm.categories[1]]
    /\ store = WizardCategories[wm.categories[1]]

(***************************************************************************)
(* Properties of the starts of the program.                                *)
(***************************************************************************)
\* C38: once the configuration file has auto_update_prompted = true, no
\* start prompts and none changes auto_update_check, so that the prompt is
\* answered at most once; a prompt whose answer is empty or cannot be read
\* enables the check; a start runs the automatic update check exactly when
\* auto_update_check is true.
C38_PromptedOnce ==
    [][/\ disk.prompted =>
            /\ prompts' = prompts
            /\ disk' = disk
            /\ mem'.check = disk.check
       /\ prompts' # prompts =>
            /\ prompts' = prompts + 1
            /\ ~disk.prompted
            /\ mem'.prompted
            /\ (answer'.err \/ answer'.ans = "") => mem'.check
       /\ RunStartupChecks => checkRan' = mem.check
       /\ checkRan' # checkRan => (RunStartupChecks \/ StartProgram)]_vars

C38_Witness ==
    /\ startPc = "menu"
    /\ starts > 1
    /\ prompts = 1
    /\ disk.prompted
    /\ answer.err
    /\ checkRan

====
